---- MODULE Spec2Model ----
(***************************************************************************)
(* Model of the caching layer of the validator dashboard API:              *)
(* CacheService / CacheManager (services/cache.js), the services that      *)
(* cache through it, and the process shutdown handlers.                    *)
(***************************************************************************)
EXTENDS Integers, Sequences, FiniteSets, TLC

(* ------------------------------ bounds --------------------------------- *)

\* Largest value of the clock Date.now() (the clock starts at 0).
MaxTime == 2

\* Largest number of CacheService instances constructed in a run.
MaxStores == 3

\* Number of requests that may overlap.
MaxReqs == 2

(* --------------------------- configuration ----------------------------- *)

\* this.maxSize, with CACHE_MAX_SIZE=2 in the environment.
maxSize == 2

\* this.defaultTTL, with CACHE_DURATION=1 in the environment.
defaultTTL == 1

\* The absent value returned by get (null); every stored value is non-null.
Null == 0

\* The values callers store, and the ttl arguments they pass to set.
Values == {1, 2}

TTLs == {0, 1}

Keys == {"a", "b", "c"}

Namespaces == {"validators", "delegators", "apy"}

StoreIds == 1..MaxStores

Reqs == 1..MaxReqs

\* Validator addresses.
Addrs == {"a", "b"}

VARIABLES
    now,              \* Date.now()
    constructed,      \* the CacheService instances constructed so far
    namespace,        \* namespace[i]: this.namespace of instance i
    maps,             \* maps[m]: the Map object m, entries in insertion order
    cleanupInterval,  \* cleanupInterval[i]: the setInterval timer of i is active
    last,             \* the latest cache call of the running turn and its return value
    caches,           \* cacheManager.caches: namespace -> instance, 0 if none
    services,         \* the service objects constructed: their class and this.cache
    proc,             \* "running", or "exited" after process.exit
    pc,               \* pc[r]: request r is "idle" or awaits its contract read
    reqKey,           \* reqKey[r]: the address whose contract read r awaits, or ""
    reqRet,           \* the request whose call returned last, and the value returned
    calc,             \* the estimator or ranking call being evaluated, and its result
    contract,         \* contract[v][s]: the amount staker s holds with validator v now
    rankCall          \* the getDelegatorRank call in progress: its position and reads

cacheVars == <<now, constructed, namespace, maps, cleanupInterval, last>>

regVars == <<caches, services, proc>>

reqVars == <<pc, reqKey, reqRet>>

calcVars == <<calc>>

rankVars == <<contract, rankCall>>

vars == <<cacheVars, regVars, reqVars, calcVars, rankVars>>

(* --------------------------- CacheService ------------------------------ *)

\* `${this.namespace}:${key}`: the namespace, the separator, the key.
getKey(ns, key) == <<ns, key>>

\* key.startsWith(`${this.namespace}:`)
StartsWithNamespace(nk, ns) == nk[1] = ns

\* key.replace(`${this.namespace}:`, '')
StripNamespace(nk) == nk[2]

\* Mutant: one module-level Map shared by every instance.
SharedMap(i) == 1

\* this.cache = new Map(): every instance gets a Map of its own.
NewMap(i) == i

\* Map.prototype.has / get / set / delete on a Map kept as the sequence of
\* its entries in insertion order.
MapIndex(m, nk) ==
    IF \E j \in 1..Len(m) : m[j].key = nk
    THEN CHOOSE j \in 1..Len(m) : m[j].key = nk
    ELSE 0

MapDelete(m, nk) == SelectSeq(m, LAMBDA e : e.key # nk)

\* Mutant: set leaves an existing entry of the key as it is.
MapSetKeepOld(m, e) ==
    IF MapIndex(m, e.key) = 0 THEN Append(m, e) ELSE m

MapSet(m, e) ==
    IF MapIndex(m, e.key) = 0
    THEN Append(m, e)
    ELSE [m EXCEPT ![MapIndex(m, e.key)] = e]

\* The scan of _evictLRU from entry j on: the key it ends with, <<>> for
\* the initial null.
RECURSIVE EvictScan(_, _, _, _)
EvictScan(m, j, oldestKey, oldestTime) ==
    IF j > Len(m) THEN oldestKey
    ELSE IF m[j].lastAccessed < oldestTime
         THEN EvictScan(m, j + 1, m[j].key, m[j].lastAccessed)
         ELSE EvictScan(m, j + 1, oldestKey, oldestTime)

evictLRU(m, t) ==
    LET oldestKey == EvictScan(m, 1, <<>>, t)
    IN IF oldestKey # <<>> THEN MapDelete(m, oldestKey) ELSE m

\* The entry set builds, under its namespaced key.
NewEntry(ns, key, value, ttl, t) ==
    [key |-> getKey(ns, key), value |-> value, timestamp |-> t, ttl |-> ttl,
     lastAccessed |-> t]

\* CacheService.set: the Map after the call (the call returns true).
CacheSet(m, ns, key, value, ttl, t) ==
    LET m1 == IF Len(m) >= maxSize THEN evictLRU(m, t) ELSE m
    IN MapSet(m1, NewEntry(ns, key, value, ttl, t))

\* Mutant: an entry expires as soon as its age reaches its ttl.
IsExpiredInclusive(e, t) == t - e.timestamp >= e.ttl

\* Date.now() - entry.timestamp > entry.ttl
IsExpired(e, t) == t - e.timestamp > e.ttl

\* CacheService.get: its return value.
CacheGetValue(m, ns, key, t) ==
    LET j == MapIndex(m, getKey(ns, key))
    IN IF j = 0 THEN Null
       ELSE IF IsExpired(m[j], t) THEN Null
       ELSE m[j].value

\* CacheService.get: the Map after the call.
CacheGetMap(m, ns, key, t) ==
    LET j == MapIndex(m, getKey(ns, key))
    IN IF j = 0 THEN m
       ELSE IF IsExpired(m[j], t) THEN MapDelete(m, getKey(ns, key))
       ELSE [m EXCEPT ![j].lastAccessed = t]

\* CacheService.clear: the Map after the call; it returns the number removed.
CacheClear(m, ns) == SelectSeq(m, LAMBDA e : ~StartsWithNamespace(e.key, ns))

\* CacheService.keys
CacheKeys(m, ns) ==
    {StripNamespace(m[j].key) : j \in {x \in 1..Len(m) : StartsWithNamespace(m[x].key, ns)}}

\* Mutant: the sweep measures an entry's age from its last access.
CacheCleanupByLastAccess(m, t) == SelectSeq(m, LAMBDA e : ~(t - e.lastAccessed > e.ttl))

\* CacheService.cleanup: the Map after the sweep; it returns the number removed.
CacheCleanup(m, t) == SelectSeq(m, LAMBDA e : ~IsExpired(e, t))

(* ------------------------------ state ---------------------------------- *)

MapOf(i) == maps[NewMap(i)]

\* A cache call: the method, the instance, the key and value arguments
\* (0 where the method takes none) and the value returned.
NoReturn == [req |-> 0, val |-> 0]

Return(r, val) == [req |-> r, val |-> val]

NoCall == [op |-> "none", store |-> 0, key |-> "", arg |-> 0, val |-> 0]

Call(op, i, key, arg, val) == [op |-> op, store |-> i, key |-> key, arg |-> arg, val |-> val]

Bool(b) == IF b THEN 1 ELSE 0

\* No estimator or ranking call is being evaluated.
NoCalc == [fn |-> "none"]

\* A contract nobody has staked with yet (BigInt 0n is the empty sequence).
NoStakes == [v \in {"v1", "v2"} |-> [s \in {"d1", "d2", "d3"} |-> <<>>]]

\* No getDelegatorRank call is in progress.
NoRankCall == [pc |-> "idle"]

\* The state after `new CacheService(ns[i])` for i = 1..Len(ns), in a process
\* whose cacheManager has handed out no store.
Constructed(ns) ==
    /\ now = 0
    /\ constructed = 1..Len(ns)
    /\ namespace = [i \in StoreIds |-> IF i <= Len(ns) THEN ns[i] ELSE ""]
    /\ maps = [i \in StoreIds |-> <<>>]
    /\ cleanupInterval = [i \in StoreIds |-> i <= Len(ns)]
    /\ last = NoCall
    /\ caches = [n \in Namespaces |-> 0]
    /\ services = {}
    /\ proc = "running"
    /\ pc = [r \in Reqs |-> "idle"]
    /\ reqKey = [r \in Reqs |-> ""]
    /\ reqRet = NoReturn
    /\ calc = NoCalc
    /\ contract = NoStakes
    /\ rankCall = NoRankCall

Init == Constructed(<<"validators">>)

(* ----------------------------- actions --------------------------------- *)

Set(i, key, value, ttl) ==
    /\ proc = "running"
    /\ i \in constructed
    /\ maps' = [maps EXCEPT ![NewMap(i)] = CacheSet(MapOf(i), namespace[i], key, value, ttl, now)]
    /\ last' = Call("set", i, key, value, 1)
    /\ UNCHANGED <<now, constructed, namespace, cleanupInterval, regVars, reqVars, calcVars, rankVars>>

Get(i, key) ==
    /\ proc = "running"
    /\ i \in constructed
    /\ maps' = [maps EXCEPT ![NewMap(i)] = CacheGetMap(MapOf(i), namespace[i], key, now)]
    /\ last' = Call("get", i, key, 0, CacheGetValue(MapOf(i), namespace[i], key, now))
    /\ UNCHANGED <<now, constructed, namespace, cleanupInterval, regVars, reqVars, calcVars, rankVars>>

Delete(i, key) ==
    /\ proc = "running"
    /\ i \in constructed
    /\ maps' = [maps EXCEPT ![NewMap(i)] = MapDelete(MapOf(i), getKey(namespace[i], key))]
    /\ last' = Call("delete", i, key, 0, Bool(MapIndex(MapOf(i), getKey(namespace[i], key)) # 0))
    /\ UNCHANGED <<now, constructed, namespace, cleanupInterval, regVars, reqVars, calcVars, rankVars>>

Clear(i) ==
    /\ proc = "running"
    /\ i \in constructed
    /\ maps' = [maps EXCEPT ![NewMap(i)] = CacheClear(MapOf(i), namespace[i])]
    /\ last' = Call("clear", i, "", 0, Len(MapOf(i)) - Len(CacheClear(MapOf(i), namespace[i])))
    /\ UNCHANGED <<now, constructed, namespace, cleanupInterval, regVars, reqVars, calcVars, rankVars>>

\* The setInterval callback of instance i.
Cleanup(i) ==
    /\ proc = "running"
    /\ i \in constructed
    /\ cleanupInterval[i]
    /\ maps' = [maps EXCEPT ![NewMap(i)] = CacheCleanup(MapOf(i), now)]
    /\ last' = Call("cleanup", i, "", 0, Len(MapOf(i)) - Len(CacheCleanup(MapOf(i), now)))
    /\ UNCHANGED <<now, constructed, namespace, cleanupInterval, regVars, reqVars, calcVars, rankVars>>

\* Mutant: destroy cancels the timer and leaves the entries.
DestroyTimerOnly(i) ==
    /\ proc = "running"
    /\ i \in constructed
    /\ cleanupInterval' = [cleanupInterval EXCEPT ![i] = FALSE]
    /\ last' = Call("destroy", i, "", 0, 0)
    /\ UNCHANGED <<now, constructed, namespace, maps, regVars, reqVars, calcVars, rankVars>>

Destroy(i) ==
    /\ proc = "running"
    /\ i \in constructed
    /\ cleanupInterval' = [cleanupInterval EXCEPT ![i] = FALSE]
    /\ maps' = [maps EXCEPT ![NewMap(i)] = CacheClear(MapOf(i), namespace[i])]
    /\ last' = Call("destroy", i, "", 0, 0)
    /\ UNCHANGED <<now, constructed, namespace, regVars, reqVars, calcVars, rankVars>>

\* The clock advances by a millisecond.
Tick ==
    /\ proc = "running"
    /\ now < MaxTime
    /\ now' = now + 1
    /\ UNCHANGED <<constructed, namespace, maps, cleanupInterval, last, regVars, reqVars, calcVars, rankVars>>

\* The running turn ends: the event loop takes the next task.
EndTurn ==
    /\ proc = "running"
    /\ last # NoCall
    /\ last' = NoCall
    /\ UNCHANGED <<now, constructed, namespace, maps, cleanupInterval, regVars, reqVars, calcVars, rankVars>>

\* The cache calls of the instances S with keys K, values V and ttls T.
CacheCall(S, K, V, T) ==
    \/ \E i \in S, key \in K, value \in V, ttl \in T : Set(i, key, value, ttl)
    \/ \E i \in S, key \in K : Get(i, key)
    \/ \E i \in S, key \in K : Delete(i, key)
    \/ \E i \in S : Clear(i)
    \/ \E i \in S : Cleanup(i)
    \/ \E i \in S : Destroy(i)

Next ==
    \/ CacheCall({1}, Keys, {1}, TTLs)
    \/ Tick
    \/ EndTurn

\* One CacheService instance and more keys than maxSize.
Spec == Init /\ [][Next]_vars

ValueKeys == {"a", "b"}

ValueNext ==
    \/ CacheCall({1}, ValueKeys, Values, TTLs)
    \/ Tick
    \/ EndTurn

\* One CacheService instance whose callers store different values.
ValueSpec == Init /\ [][ValueNext]_vars

\* Two instances with different namespaces, as the module-level services
\* of routes/stats.js construct them.
IsoInit == Constructed(<<"validators", "delegators">>)

IsoNext ==
    \/ CacheCall({1, 2}, {"a", "b"}, {1}, {0})
    \/ Tick
    \/ EndTurn

IsoSpec == IsoInit /\ [][IsoNext]_vars

SweepKeys == {"a", "b"}

SweepNext ==
    \/ CacheCall({1}, SweepKeys, {1}, TTLs)
    \/ Tick
    \/ EndTurn

\* One instance under weak fairness of the clock and of the periodic sweep:
\* time passes, and an active setInterval timer keeps firing.
SweepSpec == Init /\ [][SweepNext]_vars /\ WF_vars(Tick) /\ WF_vars(Cleanup(1))

(* ------------------- services, CacheManager, shutdown ------------------ *)

\* new CacheService(ns): instance i with an empty Map and a running timer.
NewCacheService(i, ns, c) ==
    [constructed |-> c.constructed \cup {i},
     namespace |-> [c.namespace EXCEPT ![i] = ns],
     maps |-> [c.maps EXCEPT ![NewMap(i)] = <<>>],
     cleanupInterval |-> [c.cleanupInterval EXCEPT ![i] = TRUE]]

Heap == [constructed |-> constructed, namespace |-> namespace, maps |-> maps,
         cleanupInterval |-> cleanupInterval]

SetHeap(c) ==
    /\ constructed' = c.constructed
    /\ namespace' = c.namespace
    /\ maps' = c.maps
    /\ cleanupInterval' = c.cleanupInterval

\* The id the next constructed instance gets.
NextId == Cardinality(constructed) + 1

Service(class, i) == [class |-> class, cache |-> i]

\* new ValidatorService(): this.cache = new CacheService('validators').
NewValidatorService ==
    /\ proc = "running"
    /\ NextId <= MaxStores
    /\ SetHeap(NewCacheService(NextId, "validators", Heap))
    /\ services' = services \cup {Service("ValidatorService", NextId)}
    /\ UNCHANGED <<now, last, caches, proc, reqVars, calcVars, rankVars>>

\* new DelegatorService(): its own store, and a ValidatorService of its own.
NewDelegatorService ==
    /\ proc = "running"
    /\ NextId + 1 <= MaxStores
    /\ SetHeap(NewCacheService(NextId + 1, "validators",
                               NewCacheService(NextId, "delegators", Heap)))
    /\ services' = services \cup {Service("DelegatorService", NextId),
                                    Service("ValidatorService", NextId + 1)}
    /\ UNCHANGED <<now, last, caches, proc, reqVars, calcVars, rankVars>>

\* new APYCalculatorService(): this.cache = new CacheService('apy').
NewAPYCalculatorService ==
    /\ proc = "running"
    /\ NextId <= MaxStores
    /\ SetHeap(NewCacheService(NextId, "apy", Heap))
    /\ services' = services \cup {Service("APYCalculatorService", NextId)}
    /\ UNCHANGED <<now, last, caches, proc, reqVars, calcVars, rankVars>>

\* cacheManager.getCache(ns): the registered store, constructed on first use.
GetCache(ns) ==
    /\ proc = "running"
    /\ IF caches[ns] = 0
       THEN /\ NextId <= MaxStores
            /\ SetHeap(NewCacheService(NextId, ns, Heap))
            /\ caches' = [caches EXCEPT ![ns] = NextId]
            /\ last' = Call("getCache", NextId, ns, 0, NextId)
       ELSE /\ last' = Call("getCache", caches[ns], ns, 0, caches[ns])
            /\ UNCHANGED <<constructed, namespace, maps, cleanupInterval, caches>>
    /\ UNCHANGED <<now, services, proc, reqVars, calcVars, rankVars>>

Registered == {caches[n] : n \in Namespaces} \ {0}

\* cacheManager.clearAll(): clear() on every registered store.
ManagerClearAll ==
    /\ proc = "running"
    /\ maps' = [m \in StoreIds |->
                  IF \E i \in Registered : NewMap(i) = m
                  THEN CacheClear(maps[m], namespace[CHOOSE i \in Registered : NewMap(i) = m])
                  ELSE maps[m]]
    /\ last' = Call("clearAll", 0, "", 0, 0)
    /\ UNCHANGED <<now, constructed, namespace, cleanupInterval, regVars, reqVars, calcVars, rankVars>>

\* cacheManager.destroy(): destroy() on every registered store, then the
\* registry is emptied.
ManagerDestroy ==
    /\ proc = "running"
    /\ maps' = [m \in StoreIds |->
                  IF \E i \in Registered : NewMap(i) = m
                  THEN CacheClear(maps[m], namespace[CHOOSE i \in Registered : NewMap(i) = m])
                  ELSE maps[m]]
    /\ cleanupInterval' = [i \in StoreIds |-> cleanupInterval[i] /\ i \notin Registered]
    /\ caches' = [n \in Namespaces |-> 0]
    /\ last' = Call("managerDestroy", 0, "", 0, 0)
    /\ UNCHANGED <<now, constructed, namespace, services, proc, reqVars, calcVars, rankVars>>

\* The SIGINT / SIGTERM listeners: gracefulShutdown of app.js (registered
\* first) destroys the WebSocket service and calls process.exit(0); the
\* listener of server.js logs and calls process.exit(0).
Shutdown ==
    /\ proc = "running"
    /\ proc' = "exited"
    /\ last' = NoCall
    /\ UNCHANGED <<now, constructed, namespace, maps, cleanupInterval, caches, services, reqVars, calcVars, rankVars>>

RegNext ==
    \/ NewValidatorService
    \/ NewDelegatorService
    \/ NewAPYCalculatorService
    \/ \E ns \in Namespaces : GetCache(ns)
    \/ ManagerClearAll
    \/ ManagerDestroy
    \/ \E i \in StoreIds : Set(i, "a", 1, 1)
    \/ \E i \in StoreIds : Get(i, "a")
    \/ Shutdown

\* A process from before its modules are loaded: services and registered
\* stores are constructed as the run goes.
RegInit ==
    /\ now = 0
    /\ constructed = {}
    /\ namespace = [i \in StoreIds |-> ""]
    /\ maps = [i \in StoreIds |-> <<>>]
    /\ cleanupInterval = [i \in StoreIds |-> FALSE]
    /\ last = NoCall
    /\ caches = [n \in Namespaces |-> 0]
    /\ services = {}
    /\ proc = "running"
    /\ pc = [r \in Reqs |-> "idle"]
    /\ reqKey = [r \in Reqs |-> ""]
    /\ reqRet = NoReturn
    /\ calc = NoCalc
    /\ contract = NoStakes
    /\ rankCall = NoRankCall

RegSpec == RegInit /\ [][RegNext]_vars

(* ------------------------ read-through requests ------------------------ *)

\* `validator_info_${validatorAddress}`
ValidatorInfoKey(addr) == "validator_info_" \o addr

\* The object getValidatorInfo returns from its catch block.
DefaultInfo == 3

\* Mutant: a miss joins a contract read already in flight for the address.
GetValidatorInfoSingleFlight(r, addr) ==
    /\ proc = "running"
    /\ pc[r] = "idle"
    /\ LET key == ValidatorInfoKey(addr)
           cached == CacheGetValue(MapOf(1), namespace[1], key, now)
       IN /\ maps' = [maps EXCEPT ![NewMap(1)] = CacheGetMap(MapOf(1), namespace[1], key, now)]
          /\ last' = Call("get", 1, key, 0, cached)
          /\ IF cached # Null \/ \E q \in Reqs : pc[q] = "fetching" /\ reqKey[q] = addr
             THEN /\ reqRet' = Return(r, cached)
                  /\ UNCHANGED <<pc, reqKey>>
             ELSE /\ pc' = [pc EXCEPT ![r] = "fetching"]
                  /\ reqKey' = [reqKey EXCEPT ![r] = addr]
                  /\ UNCHANGED reqRet
    /\ UNCHANGED <<now, constructed, namespace, cleanupInterval, regVars, calcVars, rankVars>>

\* Mutant: the lookup result is ignored and the contract is read every time.
GetValidatorInfoAlwaysFetch(r, addr) ==
    /\ proc = "running"
    /\ pc[r] = "idle"
    /\ LET key == ValidatorInfoKey(addr)
           cached == CacheGetValue(MapOf(1), namespace[1], key, now)
       IN /\ maps' = [maps EXCEPT ![NewMap(1)] = CacheGetMap(MapOf(1), namespace[1], key, now)]
          /\ last' = Call("get", 1, key, 0, cached)
          /\ pc' = [pc EXCEPT ![r] = "fetching"]
          /\ reqKey' = [reqKey EXCEPT ![r] = addr]
          /\ UNCHANGED reqRet
    /\ UNCHANGED <<now, constructed, namespace, cleanupInterval, regVars, calcVars, rankVars>>

\* ValidatorService.getValidatorInfo up to its await: the cache lookup, and
\* on a miss the contract read it issues.
GetValidatorInfo(r, addr) ==
    /\ proc = "running"
    /\ pc[r] = "idle"
    /\ LET key == ValidatorInfoKey(addr)
           cached == CacheGetValue(MapOf(1), namespace[1], key, now)
       IN /\ maps' = [maps EXCEPT ![NewMap(1)] = CacheGetMap(MapOf(1), namespace[1], key, now)]
          /\ last' = Call("get", 1, key, 0, cached)
          /\ IF cached # Null
             THEN /\ reqRet' = Return(r, cached)
                  /\ UNCHANGED <<pc, reqKey>>
             ELSE /\ pc' = [pc EXCEPT ![r] = "fetching"]
                  /\ reqKey' = [reqKey EXCEPT ![r] = addr]
                  /\ UNCHANGED reqRet
    /\ UNCHANGED <<now, constructed, namespace, cleanupInterval, regVars, calcVars, rankVars>>

\* The contract read of request r resolves with info: the result is cached
\* under the default ttl and returned.
ResolveValidatorInfo(r, info) ==
    /\ proc = "running"
    /\ pc[r] = "fetching"
    /\ maps' = [maps EXCEPT ![NewMap(1)] =
                  CacheSet(MapOf(1), namespace[1], ValidatorInfoKey(reqKey[r]), info, defaultTTL, now)]
    /\ last' = Call("set", 1, ValidatorInfoKey(reqKey[r]), info, 1)
    /\ pc' = [pc EXCEPT ![r] = "idle"]
    /\ reqKey' = [reqKey EXCEPT ![r] = ""]
    /\ reqRet' = Return(r, info)
    /\ UNCHANGED <<now, constructed, namespace, cleanupInterval, regVars, calcVars, rankVars>>

\* Mutant: the catch block caches the default object it returns.
RejectValidatorInfoCached(r) ==
    /\ proc = "running"
    /\ pc[r] = "fetching"
    /\ maps' = [maps EXCEPT ![NewMap(1)] =
                  CacheSet(MapOf(1), namespace[1], ValidatorInfoKey(reqKey[r]), DefaultInfo,
                           defaultTTL, now)]
    /\ pc' = [pc EXCEPT ![r] = "idle"]
    /\ reqKey' = [reqKey EXCEPT ![r] = ""]
    /\ reqRet' = Return(r, DefaultInfo)
    /\ last' = NoCall
    /\ UNCHANGED <<now, constructed, namespace, cleanupInterval, regVars, calcVars, rankVars>>

\* The contract read of request r rejects: the catch block returns the
\* default object and the cache is not written.
RejectValidatorInfo(r) ==
    /\ proc = "running"
    /\ pc[r] = "fetching"
    /\ pc' = [pc EXCEPT ![r] = "idle"]
    /\ reqKey' = [reqKey EXCEPT ![r] = ""]
    /\ reqRet' = Return(r, DefaultInfo)
    /\ last' = NoCall
    /\ UNCHANGED <<now, constructed, namespace, maps, cleanupInterval, regVars, calcVars, rankVars>>

ReadNext ==
    \/ \E r \in Reqs, addr \in Addrs : GetValidatorInfo(r, addr)
    \/ \E r \in Reqs, info \in Values : ResolveValidatorInfo(r, info)
    \/ \E r \in Reqs : RejectValidatorInfo(r)
    \/ Cleanup(1)
    \/ Tick
    \/ EndTurn

\* One ValidatorService serving overlapping requests.
ReadInit ==
    /\ Constructed(<<"validators">>)

ReadSpec == ReadInit /\ [][ReadNext]_vars

(* ------------------------- BigInt arithmetic --------------------------- *)

\* A non-negative BigInt is the sequence of its digits to this base, least
\* significant first, without leading zeros; 0n is the empty sequence.
Base == 10000

\* BigInt(n) of a non-negative Number n.
RECURSIVE BigOf(_)
BigOf(n) == IF n = 0 THEN <<>> ELSE <<n % Base>> \o BigOf(n \div Base)

\* Number(a).
RECURSIVE BigToNumber(_)
BigToNumber(a) == IF a = <<>> THEN 0 ELSE a[1] + Base * BigToNumber(Tail(a))

RECURSIVE BigNorm(_)
BigNorm(a) ==
    IF a # <<>> /\ a[Len(a)] = 0 THEN BigNorm(SubSeq(a, 1, Len(a) - 1)) ELSE a

Digit(a, j) == IF j <= Len(a) THEN a[j] ELSE 0

RECURSIVE BigCmpFrom(_, _, _)
BigCmpFrom(a, b, j) ==
    IF j = 0 THEN 0
    ELSE IF a[j] > b[j] THEN 1
    ELSE IF a[j] < b[j] THEN -1
    ELSE BigCmpFrom(a, b, j - 1)

\* a < b, a === b, a > b as -1, 0, 1.
BigCmp(a, b) ==
    IF Len(a) > Len(b) THEN 1
    ELSE IF Len(a) < Len(b) THEN -1
    ELSE BigCmpFrom(a, b, Len(a))

RECURSIVE BigAddFrom(_, _, _, _)
BigAddFrom(a, b, j, carry) ==
    IF j > Len(a) /\ j > Len(b)
    THEN IF carry = 0 THEN <<>> ELSE <<carry>>
    ELSE LET t == Digit(a, j) + Digit(b, j) + carry
         IN <<t % Base>> \o BigAddFrom(a, b, j + 1, t \div Base)

\* a + b
BigAdd(a, b) == BigAddFrom(a, b, 1, 0)

RECURSIVE BigSubFrom(_, _, _, _)
BigSubFrom(a, b, j, borrow) ==
    IF j > Len(a) THEN <<>>
    ELSE LET t == a[j] - Digit(b, j) - borrow
         IN IF t < 0
            THEN <<t + Base>> \o BigSubFrom(a, b, j + 1, 1)
            ELSE <<t>> \o BigSubFrom(a, b, j + 1, 0)

\* a - b, for a >= b.
BigSub(a, b) == BigNorm(BigSubFrom(a, b, 1, 0))

RECURSIVE BigMulSmallFrom(_, _, _, _)
BigMulSmallFrom(a, k, j, carry) ==
    IF j > Len(a) THEN BigOf(carry)
    ELSE LET t == a[j] * k + carry
         IN <<t % Base>> \o BigMulSmallFrom(a, k, j + 1, t \div Base)

\* a * BigInt(k) for one digit k.
BigMulSmall(a, k) == IF k = 0 THEN <<>> ELSE BigMulSmallFrom(a, k, 1, 0)

\* a * Base^n
BigShift(a, n) == IF a = <<>> \/ n = 0 THEN a ELSE [j \in 1..n |-> 0] \o a

RECURSIVE BigMulFrom(_, _, _)
BigMulFrom(a, b, j) ==
    IF j > Len(b) THEN <<>>
    ELSE BigAdd(BigShift(BigMulSmall(a, b[j]), j - 1), BigMulFrom(a, b, j + 1))

\* a * b
BigMul(a, b) == BigMulFrom(a, b, 1)

\* The largest digit q in lo..hi with b * q <= r.
RECURSIVE QuotDigit(_, _, _, _)
QuotDigit(r, b, lo, hi) ==
    IF lo = hi THEN lo
    ELSE LET mid == (lo + hi + 1) \div 2
         IN IF BigCmp(BigMulSmall(b, mid), r) <= 0
            THEN QuotDigit(r, b, mid, hi)
            ELSE QuotDigit(r, b, lo, mid - 1)

\* Long division of the digits j..1 of a by b, with r the remainder carried
\* from the digits above j.
RECURSIVE BigDivFrom(_, _, _, _)
BigDivFrom(a, b, j, r) ==
    IF j = 0 THEN <<>>
    ELSE LET r1 == BigNorm(<<a[j]>> \o r)
             q == QuotDigit(r1, b, 0, Base - 1)
         IN IF q = 0
            THEN BigDivFrom(a, b, j - 1, r1) \o <<0>>
            ELSE BigDivFrom(a, b, j - 1, BigSub(r1, BigMulSmall(b, q))) \o <<q>>

\* a / b for b # 0n: BigInt division truncates.
BigDiv(a, b) == BigNorm(BigDivFrom(a, b, Len(a), <<>>))

\* ethers.parseEther of a whole number of tokens: n * 10^18 wei.
parseEther(n) == BigMul(BigOf(n), <<0, 0, 0, 0, 100>>)

(* --------------------------- APR estimator ----------------------------- *)

\* this.config of APRCalculatorService.
DEFAULT_COMMISSION_RATE == 500

BLOCKS_PER_YEAR_FAST == 31536000

BLOCKS_PER_YEAR_SLOW == 6307200

MIN_DELEGATOR_STAKE == parseEther(1000)

\* Math.floor(NETWORK_INFLATION_RATE * 10000) with NETWORK_INFLATION_RATE = 0.05.
InflationBasisPoints == 500

\* The full commission, 100%, in basis points.
FullBasisPoints == 10000

\* A call that ended with an uncaught RangeError (BigInt division by zero).
RangeError == [threw |-> "RangeError"]

\* Number(commissionRate || DEFAULT_COMMISSION_RATE), then the default in
\* place of a rate above 10000; a rate of 0n is falsy.
Commission(commissionRate) ==
    LET commission == IF commissionRate # 0 THEN commissionRate
                      ELSE DEFAULT_COMMISSION_RATE
    IN IF commission > FullBasisPoints THEN DEFAULT_COMMISSION_RATE ELSE commission

\* The body calculateAPRFast and calculateAPRSlow share. Amounts are BigInt
\* wei; commissionRate is the contract's rate as a Number. In the result apr
\* counts hundredths of a percent, the two decimals of apr.toFixed(2), and
\* delegatorShare hundredths of a percent likewise.
APRData(blocksPerYear, blockConfiguration, validatorStaking, validatorRewards, commissionRate, delegatorStake) ==
    LET estimated == validatorRewards = <<>>
        annualInflationReward ==
            BigDiv(BigMul(validatorStaking, BigOf(InflationBasisPoints)), BigOf(10000))
        effectiveRewards ==
            IF estimated THEN BigDiv(annualInflationReward, BigOf(blocksPerYear))
            ELSE validatorRewards
        totalStaking == validatorStaking
        delegatorShare == BigDiv(BigMul(delegatorStake, BigOf(10000)), totalStaking)
        estimatedAnnualRewards == BigMul(effectiveRewards, BigOf(blocksPerYear))
        commission == Commission(commissionRate)
        delegatorRewardRate == BigOf(10000 - commission)
        delegatorAnnualRewards ==
            BigDiv(BigMul(BigMul(estimatedAnnualRewards, delegatorShare), delegatorRewardRate),
                   BigMul(BigOf(10000), BigOf(10000)))
        aprBasisPoints ==
            IF delegatorStake # <<>>
            THEN BigDiv(BigMul(delegatorAnnualRewards, BigOf(10000)), delegatorStake)
            ELSE <<>>
    IN IF totalStaking = <<>> THEN RangeError
       ELSE [threw |-> "",
             apr |-> BigToNumber(aprBasisPoints),
             delegatorAnnualRewards |-> delegatorAnnualRewards,
             delegatorShare |-> BigToNumber(delegatorShare),
             commission |-> commission,
             blockConfiguration |-> blockConfiguration,
             blocksPerYear |-> blocksPerYear,
             calculationMethod |-> IF estimated THEN "estimated" ELSE "historical"]

calculateAPRFast(validatorStaking, validatorRewards, commissionRate, delegatorStake) ==
    APRData(BLOCKS_PER_YEAR_FAST, "1 second per block", validatorStaking,
            validatorRewards, commissionRate, delegatorStake)

calculateAPRSlow(validatorStaking, validatorRewards, commissionRate, delegatorStake) ==
    APRData(BLOCKS_PER_YEAR_SLOW, "5 seconds per block", validatorStaking,
            validatorRewards, commissionRate, delegatorStake)

\* calculateDelegatorAPR once the two contract reads have resolved with the
\* validator's stakingAmount, commissionRate and rewardAmount and with the
\* delegator's stake.
calculateDelegatorAPR(stakingAmount, commissionRate, rewardAmount, delegatorStake, blockTime, skipMinimumStakeCheck) ==
    LET effectiveStake ==
            IF skipMinimumStakeCheck THEN MIN_DELEGATOR_STAKE ELSE delegatorStake
        aprData ==
            IF blockTime = 1
            THEN calculateAPRFast(stakingAmount, rewardAmount, commissionRate, effectiveStake)
            ELSE calculateAPRSlow(stakingAmount, rewardAmount, commissionRate, effectiveStake)
    IN IF ~skipMinimumStakeCheck /\ BigCmp(delegatorStake, MIN_DELEGATOR_STAKE) < 0
       THEN [success |-> FALSE, error |-> "INSUFFICIENT_STAKE"]
       ELSE IF aprData.threw # ""
       THEN [success |-> FALSE, error |-> "CALCULATION_ERROR"]
       ELSE [success |-> TRUE, error |-> "", data |-> aprData]

\* An evaluated call: the function, its arguments and what it returned.
Calc(fn, in, out) == [fn |-> fn, in |-> in, out |-> out]

\* The caller takes the result.
CalcReturn ==
    /\ calc # NoCalc
    /\ calc' = NoCalc
    /\ UNCHANGED <<cacheVars, regVars, reqVars, rankVars>>

\* Stakes in wei: none, the minimum delegation, a mid-sized and a large pool.
StakeAmounts == {<<>>, parseEther(1000), parseEther(100000), parseEther(20000000)}

\* The validator's rewardAmount in wei: no history, or 0.001 token.
RewardAmounts == {<<>>, BigShift(BigOf(1000), 3)}

\* The contract's commissionRate, in basis points.
CommissionRates == {0, 500, 9990, 10000, 10001, 15000}

APRInput(validatorStaking, validatorRewards, commissionRate, delegatorStake) ==
    [validatorStaking |-> validatorStaking, validatorRewards |-> validatorRewards,
     commissionRate |-> commissionRate, delegatorStake |-> delegatorStake]

CalculateAPRFast(validatorStaking, validatorRewards, commissionRate, delegatorStake) ==
    /\ calc = NoCalc
    /\ calc' = Calc("calculateAPRFast",
                    APRInput(validatorStaking, validatorRewards, commissionRate, delegatorStake),
                    calculateAPRFast(validatorStaking, validatorRewards, commissionRate,
                                     delegatorStake))
    /\ UNCHANGED <<cacheVars, regVars, reqVars, rankVars>>

CalculateAPRSlow(validatorStaking, validatorRewards, commissionRate, delegatorStake) ==
    /\ calc = NoCalc
    /\ calc' = Calc("calculateAPRSlow",
                    APRInput(validatorStaking, validatorRewards, commissionRate, delegatorStake),
                    calculateAPRSlow(validatorStaking, validatorRewards, commissionRate,
                                     delegatorStake))
    /\ UNCHANGED <<cacheVars, regVars, reqVars, rankVars>>

CalculateDelegatorAPR(stakingAmount, rewardAmount, delegatorStake, blockTime, skipMinimumStakeCheck) ==
    /\ calc = NoCalc
    /\ calc' = Calc("calculateDelegatorAPR",
                    [stakingAmount |-> stakingAmount,
                     commissionRate |-> DEFAULT_COMMISSION_RATE,
                     rewardAmount |-> rewardAmount, delegatorStake |-> delegatorStake,
                     blockTime |-> blockTime,
                     skipMinimumStakeCheck |-> skipMinimumStakeCheck],
                    calculateDelegatorAPR(stakingAmount, DEFAULT_COMMISSION_RATE, rewardAmount,
                                          delegatorStake, blockTime, skipMinimumStakeCheck))
    /\ UNCHANGED <<cacheVars, regVars, reqVars, rankVars>>

AprNext ==
    \/ \E vs \in StakeAmounts, vr \in RewardAmounts, cr \in CommissionRates,
          ds \in StakeAmounts \ {parseEther(20000000)} :
          CalculateAPRFast(vs, vr, cr, ds)
    \/ \E vs \in StakeAmounts, vr \in RewardAmounts, cr \in CommissionRates,
          ds \in StakeAmounts \ {parseEther(20000000)} :
          CalculateAPRSlow(vs, vr, cr, ds)
    \/ \E vs \in StakeAmounts, vr \in RewardAmounts,
          ds \in StakeAmounts \ {parseEther(20000000)},
          blockTime \in {1, 5}, skip \in BOOLEAN :
          CalculateDelegatorAPR(vs, vr, ds, blockTime, skip)
    \/ CalcReturn

\* The APR calculator applied to the values two contract reads returned.
AprSpec == RegInit /\ [][AprNext]_vars

(* --------------------------- APR and APY ------------------------------- *)

\* A Number (IEEE 754 double) of the form m * 2^e. Every double the
\* estimators meet below has a significand m far under 2^53, so products
\* with 365 and 100 and quotients by a power of two are exact; the one
\* operation that rounds is 1 + periodicRate.
Dbl(m, e) == [m |-> m, e |-> e]

\* x / y for y a power of two.
DblDiv(x, y) == Dbl(x.m, x.e - y.e)

\* x * n for a whole number n.
DblMul(x, n) == Dbl(x.m * n, x.e)

\* x < y, x === y, x > y as -1, 0, 1.
DblCmp(x, y) ==
    LET sign(v) == IF v > 0 THEN 1 ELSE IF v < 0 THEN -1 ELSE 0
    IN IF x.m = 0 \/ y.m = 0 THEN sign(sign(x.m) - sign(y.m))
       ELSE IF x.e >= y.e THEN sign(x.m * 2^(x.e - y.e) - y.m)
       ELSE sign(x.m - y.m * 2^(y.e - x.e))

\* The size of a double's significand: doubles in [1, 2) are 2^-52 apart.
SignificandBits == 52

\* m / 2^s rounded to the nearest whole number, ties to even.
RoundHalfEven(m, s) ==
    LET q == m \div 2^s
        r == m % 2^s
    IN IF r > 2^(s - 1) \/ (r = 2^(s - 1) /\ q % 2 = 1) THEN q + 1 ELSE q

\* 1 + x for 0 <= x < 1, as the number of steps of 2^-52 the sum lies above
\* 1: the exact sum is rounded to the nearest double, ties to even.
OnePlus(x) ==
    IF x.e >= -SignificandBits THEN x.m * 2^(x.e + SignificandBits)
    ELSE RoundHalfEven(x.m, -SignificandBits - x.e)

\* Math.pow(1 + u * 2^-52, n) - 1 for small u: the exact power exceeds
\* 1 + n * u * 2^-52, itself a double, by less than 2^-80, and Math.pow is
\* accurate to under one step, so it returns that double (and exactly 1 for
\* the base 1); the subtraction is exact.
PowMinusOne(u, n) == Dbl(n * u, -SignificandBits)

\* APYCalculatorService.calculateAPR
calculateAPR(dailyRewards, totalStaked) ==
    IF DblCmp(totalStaked, Dbl(0, 0)) <= 0 THEN Dbl(0, 0)
    ELSE LET dailyRate == DblDiv(dailyRewards, totalStaked)
             annualRate == DblMul(dailyRate, 365)
         IN DblMul(annualRate, 100)

\* APYCalculatorService.calculateAPY with the default compoundingFrequency:
\* compoundingFrequency / 365 is 1 and dividing by it changes nothing.
calculateAPY(dailyRewards, totalStaked) ==
    IF DblCmp(totalStaked, Dbl(0, 0)) <= 0 THEN Dbl(0, 0)
    ELSE LET compoundingFrequency == 365
             dailyRate == DblDiv(dailyRewards, totalStaked)
             periodicRate == DblDiv(dailyRate, Dbl(compoundingFrequency \div 365, 0))
             apy == PowMinusOne(OnePlus(periodicRate), compoundingFrequency)
         IN DblMul(apy, 100)

\* Daily rewards: whole numbers of tokens.
DailyRewards == {Dbl(d, 0) : d \in 0..7}

\* Total stakes: negative, zero, and 2^50 .. 2^56 tokens, against which the
\* daily rate is of the size of the gap between doubles next to 1.
TotalStakes == {Dbl(-1, 0), Dbl(0, 0)} \cup {Dbl(1, k) : k \in 50..56}

CalculateAPR(dailyRewards, totalStaked) ==
    /\ calc = NoCalc
    /\ calc' = Calc("calculateAPR",
                    [dailyRewards |-> dailyRewards, totalStaked |-> totalStaked],
                    calculateAPR(dailyRewards, totalStaked))
    /\ UNCHANGED <<cacheVars, regVars, reqVars, rankVars>>

CalculateAPY(dailyRewards, totalStaked) ==
    /\ calc = NoCalc
    /\ calc' = Calc("calculateAPY",
                    [dailyRewards |-> dailyRewards, totalStaked |-> totalStaked],
                    calculateAPY(dailyRewards, totalStaked))
    /\ UNCHANGED <<cacheVars, regVars, reqVars, rankVars>>

ApyNext ==
    \/ \E d \in DailyRewards, t \in TotalStakes : CalculateAPR(d, t)
    \/ \E d \in DailyRewards, t \in TotalStakes : CalculateAPY(d, t)
    \/ CalcReturn

\* calculateAPR and calculateAPY applied to daily rewards and total stakes.
ApySpec == RegInit /\ [][ApyNext]_vars

(* --------------------- performance score and risk ---------------------- *)

\* Numbers are kept in the unit of their last decimal: an APY in hundredths
\* of a percent (15.01 is 1501), a commission rate in ten-thousandths (0.05
\* is 500), stakes and slash amounts in whole tokens. validatorInfo.stakers
\* is the length of the array, or NoStakers where the field is missing.
NoStakers == -1

Min(a, b) == IF a < b THEN a ELSE b

Max(a, b) == IF a > b THEN a ELSE b

\* Mutant: the top APY band starts at 15.
ApyPointsInclusive(apy) ==
    IF apy >= 1500 THEN 40
    ELSE IF apy > 1200 THEN 30
    ELSE IF apy > 1000 THEN 20
    ELSE IF apy > 800 THEN 10
    ELSE 0

\* APY contribution.
ApyPoints(apy) ==
    IF apy > 1500 THEN 40
    ELSE IF apy > 1200 THEN 30
    ELSE IF apy > 1000 THEN 20
    ELSE IF apy > 800 THEN 10
    ELSE 0

\* Mutant: a commission of exactly 5% is in the top band.
CommissionPointsInclusive(commissionRate) ==
    IF commissionRate <= 500 THEN 25
    ELSE IF commissionRate < 1000 THEN 20
    ELSE IF commissionRate < 1500 THEN 15
    ELSE IF commissionRate < 2000 THEN 10
    ELSE -10

\* Commission rate contribution.
CommissionPoints(commissionRate) ==
    IF commissionRate < 500 THEN 25
    ELSE IF commissionRate < 1000 THEN 20
    ELSE IF commissionRate < 1500 THEN 15
    ELSE IF commissionRate < 2000 THEN 10
    ELSE -10

\* Mutant: a stake of exactly 100,000 is in the top band.
StakePointsInclusive(stakingAmount) ==
    IF stakingAmount >= 100000 THEN 20
    ELSE IF stakingAmount > 50000 THEN 15
    ELSE IF stakingAmount > 10000 THEN 10
    ELSE IF stakingAmount > 1000 THEN 5
    ELSE 0

\* Staking amount contribution.
StakePoints(stakingAmount) ==
    IF stakingAmount > 100000 THEN 20
    ELSE IF stakingAmount > 50000 THEN 15
    ELSE IF stakingAmount > 10000 THEN 10
    ELSE IF stakingAmount > 1000 THEN 5
    ELSE 0

\* Validator status contribution.
StatusPoints(validatorInfo) ==
    (IF validatorInfo.status = 1 THEN 15 ELSE 0)
    + (IF validatorInfo.slashAmount = 0 THEN 5 ELSE 0)

\* APYCalculatorService.calculatePerformanceScore
calculatePerformanceScore(apy, commissionRate, stakingAmount, validatorInfo) ==
    LET score == 50 + ApyPoints(apy) + CommissionPoints(commissionRate)
                 + StakePoints(stakingAmount) + StatusPoints(validatorInfo)
    IN Max(0, Min(100, score))

\* Mutant: a score of exactly 50 is still MEDIUM.
RiskLevelAbove(riskScore) ==
    IF riskScore > 50 THEN "HIGH"
    ELSE IF riskScore >= 25 THEN "MEDIUM"
    ELSE "LOW"

\* Determine risk level.
RiskLevel(riskScore) ==
    IF riskScore >= 50 THEN "HIGH"
    ELSE IF riskScore >= 25 THEN "MEDIUM"
    ELSE "LOW"

\* APYCalculatorService.assessValidatorRisk: level, score and factors of the
\* result (the recommendation is a text chosen by the level).
assessValidatorRisk(validatorInfo, stakingAmount) ==
    LET slashAmount == validatorInfo.slashAmount
        totalStakers == IF validatorInfo.stakers # NoStakers THEN validatorInfo.stakers ELSE 0
        slashed == slashAmount > 0
        few == totalStakers < 10
        low == stakingAmount < 1000
        commissionRate == validatorInfo.commissionRate
        high == commissionRate > 2000
        riskFactors ==
            (IF slashed THEN <<"Has been slashed previously">> ELSE <<>>)
            \o (IF few THEN <<"Low number of delegators">> ELSE <<>>)
            \o (IF low THEN <<"Low total staking amount">> ELSE <<>>)
            \o (IF high THEN <<"High commission rate">> ELSE <<>>)
        riskScore == (IF slashed THEN 30 ELSE 0) + (IF few THEN 20 ELSE 0)
                     + (IF low THEN 25 ELSE 0) + (IF high THEN 15 ELSE 0)
    IN [level |-> RiskLevel(riskScore), score |-> riskScore, factors |-> riskFactors]

\* The fields of validatorInfo the two functions read.
ValidatorInfo(status, slashAmount, stakers, commissionRate) ==
    [status |-> status, slashAmount |-> slashAmount, stakers |-> stakers,
     commissionRate |-> commissionRate]

\* Inputs on both sides of every threshold.
Apys == {800, 801, 1000, 1001, 1200, 1201, 1500, 1501}

ScoreCommissionRates == {499, 500, 999, 1000, 1499, 1500, 1999, 2000, 2001}

ScoreStakes == {999, 1000, 1001, 10000, 10001, 50000, 50001, 100000, 100001}

Statuses == {0, 1, 2}

SlashAmounts == {0, 1}

StakerCounts == {NoStakers, 0, 9, 10}

CalculatePerformanceScore(apy, commissionRate, stakingAmount, validatorInfo) ==
    /\ calc = NoCalc
    /\ calc' = Calc("calculatePerformanceScore",
                    [apy |-> apy, commissionRate |-> commissionRate,
                     stakingAmount |-> stakingAmount, validatorInfo |-> validatorInfo],
                    calculatePerformanceScore(apy, commissionRate, stakingAmount,
                                              validatorInfo))
    /\ UNCHANGED <<cacheVars, regVars, reqVars, rankVars>>

\* Mutant: a score of exactly 40 is POOR.
getPerformanceRankingAbove(score) ==
    IF score >= 85 THEN "EXCELLENT"
    ELSE IF score >= 70 THEN "GOOD"
    ELSE IF score >= 55 THEN "AVERAGE"
    ELSE IF score > 40 THEN "BELOW_AVERAGE"
    ELSE "POOR"

\* APYCalculatorService.getPerformanceRanking
getPerformanceRanking(score) ==
    IF score >= 85 THEN "EXCELLENT"
    ELSE IF score >= 70 THEN "GOOD"
    ELSE IF score >= 55 THEN "AVERAGE"
    ELSE IF score >= 40 THEN "BELOW_AVERAGE"
    ELSE "POOR"

\* The performance part of a yield report: calculateValidatorYield scores the
\* validator and ranks the score it computed.
Performance(apy, commissionRate, stakingAmount, validatorInfo) ==
    LET performanceScore == calculatePerformanceScore(apy, commissionRate,
                                                      stakingAmount, validatorInfo)
    IN [score |-> performanceScore, ranking |-> getPerformanceRanking(performanceScore)]

RankPerformance(apy, commissionRate, stakingAmount, validatorInfo) ==
    /\ calc = NoCalc
    /\ calc' = Calc("getPerformanceRanking",
                    [apy |-> apy, commissionRate |-> commissionRate,
                     stakingAmount |-> stakingAmount, validatorInfo |-> validatorInfo],
                    Performance(apy, commissionRate, stakingAmount, validatorInfo))
    /\ UNCHANGED <<cacheVars, regVars, reqVars, rankVars>>

AssessValidatorRisk(validatorInfo, stakingAmount) ==
    /\ calc = NoCalc
    /\ calc' = Calc("assessValidatorRisk",
                    [validatorInfo |-> validatorInfo, stakingAmount |-> stakingAmount],
                    assessValidatorRisk(validatorInfo, stakingAmount))
    /\ UNCHANGED <<cacheVars, regVars, reqVars, rankVars>>

ScoreNext ==
    \/ \E apy \in Apys, commissionRate \in ScoreCommissionRates,
          stakingAmount \in ScoreStakes, status \in Statuses,
          slashAmount \in SlashAmounts :
          CalculatePerformanceScore(apy, commissionRate, stakingAmount,
              ValidatorInfo(status, slashAmount, NoStakers, commissionRate))
    \/ \E apy \in Apys, commissionRate \in ScoreCommissionRates,
          stakingAmount \in ScoreStakes, status \in Statuses,
          slashAmount \in SlashAmounts :
          RankPerformance(apy, commissionRate, stakingAmount,
              ValidatorInfo(status, slashAmount, NoStakers, commissionRate))
    \/ \E commissionRate \in ScoreCommissionRates, stakingAmount \in ScoreStakes,
          slashAmount \in SlashAmounts, stakers \in StakerCounts :
          AssessValidatorRisk(ValidatorInfo(1, slashAmount, stakers, commissionRate),
                              stakingAmount)
    \/ CalcReturn

\* The scoring functions calculateValidatorYield applies to a validator.
ScoreSpec == RegInit /\ [][ScoreNext]_vars

(* -------------------------- delegator ranking -------------------------- *)

\* The contract as DelegatorRankingService reads it: getActivatedValidators()
\* returns ActiveValidators, getValidatorInfo(v) lists Stakers as the stakers
\* of every validator, and getStakingInfo(s, v) returns amount chain[v][s].
ActiveValidators == <<"v1", "v2">>

Stakers == <<"d1", "d2", "d3">>

\* Amounts a staker holds with one validator, in wei: nothing or 1000 tokens.
Amounts == {<<>>, parseEther(1000)}

Chains == [{"v1", "v2"} -> [{"d1", "d2", "d3"} -> Amounts]]

\* The largest page number requested.
MaxPage == 3

Pages == 1..MaxPage

Limits == {1, 2}

\* Mutant: no address is ever found in the Map.
AddressIndexAbsent(map, address) == 0

\* The position of address in a Map kept as the sequence of its entries in
\* insertion order, 0 if it has none.
AddressIndex(map, address) ==
    IF \E j \in 1..Len(map) : map[j].address = address
    THEN CHOOSE j \in 1..Len(map) : map[j].address = address
    ELSE 0

\* The loops of getAllDelegators from validator vi and staker si on, with
\* delegatorMap as built so far.
RECURSIVE AllDelegatorsFrom(_, _, _, _)
AllDelegatorsFrom(chain, vi, si, delegatorMap) ==
    IF vi > Len(ActiveValidators) THEN delegatorMap
    ELSE IF si > Len(Stakers) THEN AllDelegatorsFrom(chain, vi + 1, 1, delegatorMap)
    ELSE LET staker == Stakers[si]
             amount == chain[ActiveValidators[vi]][staker]
             j == AddressIndex(delegatorMap, staker)
         IN IF amount = <<>>
            THEN AllDelegatorsFrom(chain, vi, si + 1, delegatorMap)
            ELSE IF j = 0
            THEN AllDelegatorsFrom(chain, vi, si + 1,
                     Append(delegatorMap, [address |-> staker, totalStake |-> amount]))
            ELSE AllDelegatorsFrom(chain, vi, si + 1,
                     [delegatorMap EXCEPT ![j].totalStake = BigAdd(@, amount)])

\* DelegatorRankingService.getAllDelegators once every contract read has
\* resolved.
getAllDelegators(chain) == AllDelegatorsFrom(chain, 1, 1, <<>>)

\* The decimal digits of one digit to Base.
DecimalDigits(d) == <<d \div 1000, (d \div 100) % 10, (d \div 10) % 10, d % 10>>

RECURSIVE BigDecimal(_)
BigDecimal(a) == IF a = <<>> THEN <<>> ELSE BigDecimal(Tail(a)) \o DecimalDigits(a[1])

RECURSIVE StripZeros(_)
StripZeros(str) ==
    IF Len(str) > 1 /\ str[1] = 0 THEN StripZeros(Tail(str)) ELSE str

\* totalStake.toString(): the decimal digits, most significant first.
BigToString(a) == IF a = <<>> THEN <<0>> ELSE StripZeros(BigDecimal(a))

RECURSIVE BigParseFrom(_, _, _)
BigParseFrom(str, j, acc) ==
    IF j > Len(str) THEN acc
    ELSE IF acc = <<>> THEN BigParseFrom(str, j + 1, BigOf(str[j]))
    ELSE BigParseFrom(str, j + 1, BigAdd(BigMulSmall(acc, 10), BigOf(str[j])))

\* BigInt(string) of a decimal string.
BigParse(str) == BigParseFrom(str, 1, <<>>)

\* ethers.formatEther: the decimal string whole.fraction, as the whole
\* number of tokens and the remaining wei that make up its fraction.
formatEther(wei) ==
    LET whole == BigDiv(wei, parseEther(1))
    IN [whole |-> BigToString(whole),
        fraction |-> BigToString(BigSub(wei, BigMul(whole, parseEther(1))))]

\* Mutant: the comparator orders by ascending stake.
CompareStakeAscending(a, b) ==
    LET aWei == BigParse(a.totalStakeWei)
        bWei == BigParse(b.totalStakeWei)
    IN IF BigCmp(aWei, bWei) > 0 THEN 1
       ELSE IF BigCmp(aWei, bWei) < 0 THEN -1
       ELSE 0

\* The comparator calculateDelegatorRankings sorts with.
CompareStake(a, b) ==
    LET aWei == BigParse(a.totalStakeWei)
        bWei == BigParse(b.totalStakeWei)
    IN IF BigCmp(aWei, bWei) > 0 THEN -1
       ELSE IF BigCmp(aWei, bWei) < 0 THEN 1
       ELSE 0

\* Array.prototype.sort is stable: x, met after the elements of sorted,
\* goes before the first of them the comparator puts after it.
InsertSorted(sorted, x) ==
    LET later == {j \in 1..Len(sorted) : CompareStake(x, sorted[j]) < 0}
    IN IF later = {} THEN Append(sorted, x)
       ELSE LET k == CHOOSE j \in later : \A i \in later : j <= i
            IN SubSeq(sorted, 1, k - 1) \o <<x>> \o SubSeq(sorted, k, Len(sorted))

RECURSIVE SortFrom(_, _, _)
SortFrom(arr, j, sorted) ==
    IF j > Len(arr) THEN sorted
    ELSE SortFrom(arr, j + 1, InsertSorted(sorted, arr[j]))

Sort(arr) == SortFrom(arr, 1, <<>>)

\* Array.prototype.slice(start, end) for 0 <= start <= end.
Slice(arr, start, end) == SubSeq(arr, start + 1, Min(end, Len(arr)))

\* The sum the two reduce calls compute: BigInt(d.totalStakeWei || '0')
\* over arr, where an element without a totalStakeWei field counts as '0'.
RECURSIVE SumStakeWei(_, _)
SumStakeWei(arr, j) ==
    IF j > Len(arr) THEN <<>>
    ELSE BigAdd(IF "totalStakeWei" \in DOMAIN arr[j]
                THEN BigParse(arr[j].totalStakeWei) ELSE BigParse(<<0>>),
                SumStakeWei(arr, j + 1))

\* calculatePercentage: "0.00" for a zero total, else the percentage to four
\* decimals, as its digits and the number of decimals. For whole numbers of
\* tokens as staked here the quotient of the two doubles is never close
\* enough to a rounding boundary for toFixed(4) to differ from rounding the
\* exact quotient.
calculatePercentage(stake, allDelegators) ==
    LET totalStake == SumStakeWei(allDelegators, 1)
    IN IF totalStake = <<>> THEN [digits |-> 0, decimals |-> 2]
       ELSE [digits |-> BigToNumber(BigDiv(
                            BigAdd(BigMul(stake, BigOf(2000000)), totalStake),
                            BigMulSmall(totalStake, 2))),
             decimals |-> 4]

\* Math.ceil(a / b) for whole a >= 0 and b > 0.
Ceil(a, b) == (a + b - 1) \div b

\* DelegatorRankingService.calculateDelegatorRankings once every contract
\* read has resolved.
calculateDelegatorRankings(chain, page, limit) ==
    LET delegatorMap == getAllDelegators(chain)
        delegators ==
            Sort([j \in 1..Len(delegatorMap) |->
                     [address |-> delegatorMap[j].address,
                      totalStake |-> formatEther(delegatorMap[j].totalStake),
                      totalStakeWei |-> BigToString(delegatorMap[j].totalStake)]])
        rankedDelegators ==
            [j \in 1..Len(delegators) |->
                [address |-> delegators[j].address,
                 rank |-> j,
                 totalStake |-> delegators[j].totalStake,
                 percentOfTotal |->
                     calculatePercentage(BigParse(delegators[j].totalStakeWei), delegators)]]
        startIndex == (page - 1) * limit
        endIndex == startIndex + limit
        paginatedResults == Slice(rankedDelegators, startIndex, endIndex)
        sum == SumStakeWei(rankedDelegators, 1)
        count == IF Len(rankedDelegators) # 0 THEN Len(rankedDelegators) ELSE 1
    IN [delegators |-> paginatedResults,
        pagination |-> [currentPage |-> page,
                        totalPages |-> Ceil(Len(rankedDelegators), limit),
                        totalItems |-> Len(rankedDelegators),
                        itemsPerPage |-> limit,
                        hasNext |-> endIndex < Len(rankedDelegators),
                        hasPrev |-> page > 1],
        summary |-> [totalDelegators |-> Len(rankedDelegators),
                     totalStaked |-> formatEther(sum),
                     averageStake |-> formatEther(BigDiv(sum, BigOf(count)))]]

CalculateDelegatorRankings(chain, page, limit) ==
    /\ calc = NoCalc
    /\ calc' = Calc("calculateDelegatorRankings",
                    [chain |-> chain, page |-> page, limit |-> limit],
                    calculateDelegatorRankings(chain, page, limit))
    /\ UNCHANGED <<cacheVars, regVars, reqVars, rankVars>>

RankNext ==
    \/ \E chain \in Chains, page \in Pages, limit \in Limits :
          CalculateDelegatorRankings(chain, page, limit)
    \/ CalcReturn

\* The ranking service over every assignment of stakes of three delegators
\* to two validators.
RankSpec == RegInit /\ [][RankNext]_vars

(* ---------------------------- delegator rank --------------------------- *)

\* 10^18, the wei of one token.
WeiPerEther == parseEther(1)

\* The wei a string of formatEther stands for.
WeiOf(str) == BigAdd(BigMul(BigParse(str.whole), WeiPerEther), BigParse(str.fraction))

\* The k with b * 2^k <= a < b * 2^(k+1), counted from k, for a # 0n; it
\* is approached in steps of 2^13 = 8192, then of 2.
RECURSIVE FloorLog2(_, _, _)
FloorLog2(a, b, k) ==
    IF BigCmp(a, b) < 0
    THEN IF BigCmp(BigMulSmall(a, 8192), b) < 0
         THEN FloorLog2(BigMulSmall(a, 8192), b, k - 13)
         ELSE FloorLog2(BigMulSmall(a, 2), b, k - 1)
    ELSE IF BigCmp(a, BigMulSmall(b, 2)) < 0 THEN k
    ELSE IF BigCmp(a, BigMulSmall(b, 8192)) >= 0
         THEN FloorLog2(a, BigMulSmall(b, 8192), k + 13)
         ELSE FloorLog2(a, BigMulSmall(b, 2), k + 1)

\* a * 2^k
RECURSIVE BigTimesPow2(_, _)
BigTimesPow2(a, k) ==
    IF k = 0 \/ a = <<>> THEN a
    ELSE IF k >= 13 THEN BigTimesPow2(BigMulSmall(a, 8192), k - 13)
    ELSE BigTimesPow2(BigMulSmall(a, 2), k - 1)

\* num / den rounded to the nearest whole number, halves to the even one.
BigRoundHalfEven(num, den) ==
    LET q == BigDiv(num, den)
        twice == BigMulSmall(BigSub(num, BigMul(q, den)), 2)
    IN IF BigCmp(twice, den) > 0 \/ (BigCmp(twice, den) = 0 /\ Digit(q, 1) % 2 = 1)
       THEN BigAdd(q, BigOf(1))
       ELSE q

\* The double nearest to num / den, as m * 2^e with a significand m of
\* SignificandBits + 1 bits (exponent range aside).
NearestDouble(num, den) ==
    LET s == SignificandBits - FloorLog2(num, den, 0)
    IN IF num = <<>> THEN [m |-> <<>>, e |-> 0]
       ELSE IF s >= 0
       THEN [m |-> BigRoundHalfEven(BigTimesPow2(num, s), den), e |-> -s]
       ELSE [m |-> BigRoundHalfEven(num, BigTimesPow2(den, -s)), e |-> -s]

\* parseFloat of a string of formatEther: the double nearest to the decimal
\* number, as m * 2^e with a significand m of SignificandBits + 1 bits.
parseFloat(str) == NearestDouble(WeiOf(str), WeiPerEther)

\* x < y, x === y, x > y as -1, 0, 1 for two doubles of parseFloat.
FloatCmp(x, y) ==
    LET low == Min(x.e, y.e)
    IN BigCmp(BigTimesPow2(x.m, x.e - low), BigTimesPow2(y.m, y.e - low))

\* The comparator of the breakdown's sort, parseFloat(b.stake) -
\* parseFloat(a.stake), as its sign.
CompareBreakdown(a, b) == FloatCmp(parseFloat(b.stake), parseFloat(a.stake))

\* The stable sort of the breakdown: x goes before the first element the
\* comparator puts after it.
InsertBreakdown(sorted, x) ==
    LET later == {j \in 1..Len(sorted) : CompareBreakdown(x, sorted[j]) < 0}
    IN IF later = {} THEN Append(sorted, x)
       ELSE LET k == CHOOSE j \in later : \A i \in later : j <= i
            IN SubSeq(sorted, 1, k - 1) \o <<x>> \o SubSeq(sorted, k, Len(sorted))

RECURSIVE SortBreakdownFrom(_, _, _)
SortBreakdownFrom(arr, j, sorted) ==
    IF j > Len(arr) THEN sorted
    ELSE SortBreakdownFrom(arr, j + 1, InsertBreakdown(sorted, arr[j]))

\* The loop of getDelegatorValidatorBreakdown from validator vi on, where
\* amounts[validator] is what getStakingInfo(delegatorAddress, validator)
\* returned.
RECURSIVE BreakdownFrom(_, _)
BreakdownFrom(amounts, vi) ==
    IF vi > Len(ActiveValidators) THEN <<>>
    ELSE LET validator == ActiveValidators[vi]
         IN IF amounts[validator] # <<>>
            THEN <<[validator |-> validator, stake |-> formatEther(amounts[validator])]>>
                     \o BreakdownFrom(amounts, vi + 1)
            ELSE BreakdownFrom(amounts, vi + 1)

\* What getDelegatorValidatorBreakdown returns when its reads returned
\* amounts.
ValidatorBreakdown(amounts) == SortBreakdownFrom(BreakdownFrom(amounts, 1), 1, <<>>)

\* DelegatorRankingService.getDelegatorValidatorBreakdown once every
\* contract read has resolved.
getDelegatorValidatorBreakdown(chain, delegatorAddress) ==
    ValidatorBreakdown([v \in DOMAIN chain |-> chain[v][delegatorAddress]])

\* (num / den).toFixed(decimals) of whole numbers: the digits of the result
\* and the number of decimals. For the small counts used here the double
\* quotient is never near enough to a rounding boundary to round otherwise
\* than the exact quotient.
ToFixed(num, den, decimals) ==
    LET scale == IF decimals = 2 THEN 100 ELSE 10000
    IN [digits |-> (2 * num * scale + den) \div (2 * den), decimals |-> decimals]

\* Mutant: the rank counts the delegators with at least the same stake.
RankAmongInclusive(delegatorMap, delegatorStake) ==
    1 + Cardinality({j \in 1..Len(delegatorMap) :
                        BigCmp(delegatorMap[j].totalStake, delegatorStake) >= 0})

\* The loop that counts the delegators with more stake.
RankAmong(delegatorMap, delegatorStake) ==
    1 + Cardinality({j \in 1..Len(delegatorMap) :
                        BigCmp(delegatorMap[j].totalStake, delegatorStake) > 0})

\* What getDelegatorRank returns for the map getAllDelegators resolved to
\* and the breakdown getDelegatorValidatorBreakdown resolved to.
DelegatorRankResult(delegatorMap, delegatorAddress, validatorBreakdown) ==
    LET j == AddressIndex(delegatorMap, delegatorAddress)
        delegatorStake == IF j # 0 THEN delegatorMap[j].totalStake ELSE <<>>
        rank == RankAmong(delegatorMap, delegatorStake)
        size == Len(delegatorMap)
    IN IF delegatorStake = <<>>
       THEN [address |-> delegatorAddress,
             rank |-> "null",
             totalStake |-> "0.0",
             message |-> "Delegator not found or has no active stakes"]
       ELSE [address |-> delegatorAddress,
             rank |-> rank,
             totalStake |-> formatEther(delegatorStake),
             totalDelegators |-> size,
             percentile |-> ToFixed((size - rank + 1) * 100, size, 2),
             validatorBreakdown |-> validatorBreakdown]

\* DelegatorRankingService.getDelegatorRank once every contract read has
\* resolved, the chain unchanged meanwhile.
getDelegatorRank(chain, delegatorAddress) ==
    DelegatorRankResult(getAllDelegators(chain), delegatorAddress,
                        getDelegatorValidatorBreakdown(chain, delegatorAddress))

GetDelegatorRank(chain, delegatorAddress) ==
    /\ calc = NoCalc
    /\ calc' = Calc("getDelegatorRank",
                    [chain |-> chain, delegatorAddress |-> delegatorAddress],
                    getDelegatorRank(chain, delegatorAddress))
    /\ UNCHANGED <<cacheVars, regVars, reqVars, rankVars>>

GetAllDelegators(chain) ==
    /\ calc = NoCalc
    /\ calc' = Calc("getAllDelegators", [chain |-> chain], getAllDelegators(chain))
    /\ UNCHANGED <<cacheVars, regVars, reqVars, rankVars>>

RankOfNext ==
    \/ \E chain \in Chains, delegatorAddress \in {"d1", "d2", "d3"} :
          GetDelegatorRank(chain, delegatorAddress)
    \/ \E chain \in Chains : GetAllDelegators(chain)
    \/ CalcReturn

\* Rank lookups over every assignment of stakes of three delegators to two
\* validators.
RankOfSpec == RegInit /\ [][RankOfNext]_vars

(* ------------------ delegator rank while stakes change ------------------ *)

\* getDelegatorRank awaits one contract read after another; between two of
\* them stakers stake and unstake. rankCall.chain[v][s] is what
\* getStakingInfo(s, v) returned to getAllDelegators, rankCall.amounts[v] what
\* getStakingInfo(delegatorAddress, v) returned to the breakdown.
ChangingStakers == {"d1", "d2"}

\* A staker's amount with a validator changes on chain.
StakeChange(validator, staker, amount) ==
    /\ contract[validator][staker] # amount
    /\ contract' = [contract EXCEPT ![validator][staker] = amount]
    /\ UNCHANGED <<cacheVars, regVars, reqVars, calcVars, rankCall>>

\* getDelegatorRank(delegatorAddress) is called and awaits getAllDelegators.
RankCallStart(delegatorAddress) ==
    /\ rankCall = NoRankCall
    /\ rankCall' = [pc |-> "delegators", address |-> delegatorAddress,
                    vi |-> 1, si |-> 1, chain |-> NoStakes]
    /\ UNCHANGED <<cacheVars, regVars, reqVars, calcVars, contract>>

\* What getDelegatorRank returns from the reads made.
RankResult(chain, delegatorAddress, validatorBreakdown) ==
    [pc |-> "returned",
     address |-> delegatorAddress,
     result |-> DelegatorRankResult(getAllDelegators(chain), delegatorAddress,
                                    validatorBreakdown)]

\* One getStakingInfo(staker, validator) of getAllDelegators resolves. After
\* the last one getDelegatorRank returns the null rank for an address with
\* no entry and goes on to the breakdown otherwise.
ReadStakingInfo ==
    /\ rankCall.pc = "delegators"
    /\ LET validator == ActiveValidators[rankCall.vi]
           staker == Stakers[rankCall.si]
           chain == [rankCall.chain EXCEPT ![validator][staker] = contract[validator][staker]]
       IN rankCall' =
              IF rankCall.si < Len(Stakers)
              THEN [rankCall EXCEPT !.si = @ + 1, !.chain = chain]
              ELSE IF rankCall.vi < Len(ActiveValidators)
              THEN [rankCall EXCEPT !.vi = @ + 1, !.si = 1, !.chain = chain]
              ELSE IF AddressIndex(getAllDelegators(chain), rankCall.address) = 0
              THEN RankResult(chain, rankCall.address, <<>>)
              ELSE [pc |-> "breakdown", address |-> rankCall.address, vi |-> 1,
                    chain |-> chain,
                    amounts |-> [v \in {"v1", "v2"} |-> <<>>]]
    /\ UNCHANGED <<cacheVars, regVars, reqVars, calcVars, contract>>

\* A contract read of getAllDelegators rejects: getDelegatorRank logs and
\* rethrows.
DelegatorsReadFails ==
    /\ rankCall.pc = "delegators"
    /\ rankCall' = [pc |-> "threw", address |-> rankCall.address]
    /\ UNCHANGED <<cacheVars, regVars, reqVars, calcVars, contract>>

\* One getStakingInfo(delegatorAddress, validator) of the breakdown resolves;
\* after the last one the breakdown is sorted and getDelegatorRank returns.
ReadBreakdown ==
    /\ rankCall.pc = "breakdown"
    /\ LET validator == ActiveValidators[rankCall.vi]
           amounts == [rankCall.amounts EXCEPT
                          ![validator] = contract[validator][rankCall.address]]
       IN rankCall' =
              IF rankCall.vi < Len(ActiveValidators)
              THEN [rankCall EXCEPT !.vi = @ + 1, !.amounts = amounts]
              ELSE RankResult(rankCall.chain, rankCall.address,
                              ValidatorBreakdown(amounts))
    /\ UNCHANGED <<cacheVars, regVars, reqVars, calcVars, contract>>

\* A contract read of the breakdown rejects: getDelegatorValidatorBreakdown
\* logs and returns [].
BreakdownReadFails ==
    /\ rankCall.pc = "breakdown"
    /\ rankCall' = RankResult(rankCall.chain, rankCall.address, <<>>)
    /\ UNCHANGED <<cacheVars, regVars, reqVars, calcVars, contract>>

\* The caller takes the result or the error.
RankCallReturn ==
    /\ rankCall.pc \in {"returned", "threw"}
    /\ rankCall' = NoRankCall
    /\ UNCHANGED <<cacheVars, regVars, reqVars, calcVars, contract>>

RankCallNext ==
    \/ \E validator \in {"v1", "v2"}, staker \in ChangingStakers, amount \in Amounts :
          StakeChange(validator, staker, amount)
    \/ \E delegatorAddress \in ChangingStakers : RankCallStart(delegatorAddress)
    \/ ReadStakingInfo
    \/ DelegatorsReadFails
    \/ ReadBreakdown
    \/ BreakdownReadFails
    \/ RankCallReturn

\* Rank lookups interleaved with stake changes and rejected reads.
RankCallSpec == RegInit /\ [][RankCallNext]_vars

(* ------------------------- network statistics ------------------------- *)

\* A Number is the double (-1)^neg * m * 2^e, m a BigInt; the arithmetic
\* below computes the exact result and rounds it to the nearest double.
Zero == [neg |-> FALSE, m |-> <<>>, e |-> 0]

Number(neg, x) == IF x.m = <<>> THEN Zero ELSE [neg |-> neg, m |-> x.m, e |-> x.e]

\* x + y
NumAdd(x, y) ==
    LET low == Min(x.e, y.e)
        mx == BigTimesPow2(x.m, x.e - low)
        my == BigTimesPow2(y.m, y.e - low)
        exact == IF x.neg = y.neg THEN [neg |-> x.neg, m |-> BigAdd(mx, my)]
                 ELSE IF BigCmp(mx, my) >= 0 THEN [neg |-> x.neg, m |-> BigSub(mx, my)]
                 ELSE [neg |-> y.neg, m |-> BigSub(my, mx)]
        rounded == NearestDouble(exact.m, BigOf(1))
    IN IF x.m = <<>> THEN y
       ELSE IF y.m = <<>> THEN x
       ELSE Number(exact.neg, [m |-> rounded.m, e |-> rounded.e + low])

\* k * x for a whole number k of one digit.
NumTimes(k, x) ==
    LET rounded == NearestDouble(BigMulSmall(x.m, IF k < 0 THEN -k ELSE k), BigOf(1))
    IN Number(x.neg # (k < 0), [m |-> rounded.m, e |-> rounded.e + x.e])

\* x / y for y # 0.
NumDiv(x, y) ==
    LET rounded == NearestDouble(x.m, y.m)
    IN Number(x.neg # y.neg, [m |-> rounded.m, e |-> rounded.e + x.e - y.e])

\* x < y, x === y, x > y as -1, 0, 1.
NumCmp(x, y) ==
    IF x.neg /\ ~y.neg THEN -1
    ELSE IF ~x.neg /\ y.neg THEN 1
    ELSE IF x.neg THEN FloatCmp(y, x)
    ELSE FloatCmp(x, y)

\* values.slice().sort((a, b) => a - b): the stable ascending sort of a copy.
InsertAscending(sorted, x) ==
    LET later == {j \in 1..Len(sorted) : NumCmp(x, sorted[j]) < 0}
    IN IF later = {} THEN Append(sorted, x)
       ELSE LET k == CHOOSE j \in later : \A i \in later : j <= i
            IN SubSeq(sorted, 1, k - 1) \o <<x>> \o SubSeq(sorted, k, Len(sorted))

RECURSIVE SortAscendingFrom(_, _, _)
SortAscendingFrom(arr, j, sorted) ==
    IF j > Len(arr) THEN sorted
    ELSE SortAscendingFrom(arr, j + 1, InsertAscending(sorted, arr[j]))

SortAscending(arr) == SortAscendingFrom(arr, 1, <<>>)

\* arr.reduce((acc, val) => acc + val, 0) from element j on.
RECURSIVE NumSumFrom(_, _, _)
NumSumFrom(arr, j, acc) ==
    IF j > Len(arr) THEN acc
    ELSE IF acc.m = <<>> THEN NumSumFrom(arr, j + 1, arr[j])
    ELSE NumSumFrom(arr, j + 1, NumAdd(acc, arr[j]))

\* The loop of calculateGini from index i on (i counts from 0).
RECURSIVE GiniFrom(_, _, _)
GiniFrom(sorted, i, gini) ==
    LET n == Len(sorted)
    IN IF i >= n THEN gini
       ELSE IF gini.m = <<>>
       THEN GiniFrom(sorted, i + 1, NumTimes(2 * (i + 1) - n - 1, sorted[i + 1]))
       ELSE GiniFrom(sorted, i + 1,
                     NumAdd(gini, NumTimes(2 * (i + 1) - n - 1, sorted[i + 1])))

\* calculateGini: the value returned and the caller's array after the call.
calculateGini(values) ==
    LET sorted == SortAscending(values)
        n == Len(sorted)
        sum == NumSumFrom(sorted, 1, Zero)
    IN [gini |-> IF Len(values) = 0 THEN Zero
                 ELSE IF sum.m = <<>> THEN Zero
                 ELSE NumDiv(GiniFrom(sorted, 0, Zero), NumTimes(n, sum)),
        values |-> values]

\* The largest number of validators in a statistics request.
MaxValues == 4

\* Staking amounts of validators as info.stakingAmount gives them: the
\* formatEther strings of 0, 0.1 and 100 tokens.
StakingAmountStrings ==
    {formatEther(<<>>), formatEther(BigShift(BigOf(10), 4)), formatEther(parseEther(100))}

\* parseFloat(info.stakingAmount)
StakingAmounts == {Number(FALSE, parseFloat(str)) : str \in StakingAmountStrings}

ValueLists == UNION {[1..n -> StakingAmounts] : n \in 0..MaxValues}

CalculateGini(values) ==
    /\ calc = NoCalc
    /\ calc' = Calc("calculateGini", [values |-> values], calculateGini(values))
    /\ UNCHANGED <<cacheVars, regVars, reqVars, rankVars>>

\* The Number of a whole number k > 0 of one digit.
NumOf(k) == Number(FALSE, NearestDouble(BigOf(k), BigOf(1)))

\* x - y
NumSub(x, y) == NumAdd(x, Number(~y.neg, y))

\* Math.min(...values) and Math.max(...values) of a non-empty array.
NumMin(values) ==
    CHOOSE v \in {values[j] : j \in 1..Len(values)} :
        \A j \in 1..Len(values) : NumCmp(v, values[j]) <= 0

NumMax(values) ==
    CHOOSE v \in {values[j] : j \in 1..Len(values)} :
        \A j \in 1..Len(values) : NumCmp(v, values[j]) >= 0

\* Math.floor(x) for x >= 0.
NumFloor(x) ==
    IF x.e >= 0 THEN BigToNumber(BigTimesPow2(x.m, x.e))
    ELSE BigToNumber(BigDiv(x.m, BigTimesPow2(BigOf(1), -x.e)))

\* x.toFixed(6) for x >= 0: the digits of x * 10^6 rounded to the nearest
\* whole number, halves upwards, and the number of decimals.
NumToFixed6(x) ==
    LET num == BigMul(x.m, BigOf(1000000))
        scaled == IF x.e >= 0 THEN BigTimesPow2(num, x.e)
                  ELSE BigDiv(BigAdd(BigMulSmall(num, 2), BigTimesPow2(BigOf(1), -x.e)),
                              BigTimesPow2(BigOf(1), 1 - x.e))
    IN [digits |-> BigToString(scaled), decimals |-> 6]

\* NaN as an array index: not the index of any element.
NaN == -1

\* The bucketIndex of value, counted from 0; NaN when bucketSize is 0,
\* where (value - min) / bucketSize is 0 / 0.
BucketIndex(value, min, bucketSize, bucketCount) ==
    IF bucketSize.m = <<>> THEN NaN
    ELSE Min(NumFloor(NumDiv(NumSub(value, min), bucketSize)), bucketCount - 1)

\* createDistributionBuckets: what the call returned or threw, and the
\* caller's array after it. buckets[NaN] is undefined, and count++ on it
\* throws a TypeError.
createDistributionBuckets(values, label) ==
    LET min == NumMin(values)
        max == NumMax(values)
        bucketCount == Min(10, Len(values))
        bucketSize == NumDiv(NumSub(max, min), NumOf(bucketCount))
        index == [j \in 1..Len(values) |-> BucketIndex(values[j], min, bucketSize, bucketCount)]
        buckets ==
            [b \in 1..bucketCount |->
                LET count == Cardinality({j \in 1..Len(values) : index[j] = b - 1})
                IN [min |-> NumAdd(min, NumTimes(b - 1, bucketSize)),
                    max |-> NumAdd(min, NumTimes(b, bucketSize)),
                    count |-> count,
                    percentage |-> ToFixed(count * 100, Len(values), 2)]]
        sorted == SortAscending(values)
    IN IF Len(values) = 0
       THEN [threw |-> "", result |-> <<>>, values |-> values]
       ELSE IF index[1] = NaN
       THEN [threw |-> "TypeError", values |-> values]
       ELSE [threw |-> "",
             result |->
                 [label |-> label,
                  buckets |-> SelectSeq(buckets, LAMBDA bucket : bucket.count > 0),
                  stats |->
                      [min |-> min,
                       max |-> max,
                       average |-> NumToFixed6(NumDiv(NumSumFrom(values, 1, Zero),
                                                      NumOf(Len(values)))),
                       median |-> NumToFixed6(sorted[Len(values) \div 2 + 1])]],
             values |-> sorted]

CreateDistributionBuckets(values) ==
    /\ calc = NoCalc
    /\ calc' = Calc("createDistributionBuckets", [values |-> values],
                    createDistributionBuckets(values, "Staking Amount"))
    /\ UNCHANGED <<cacheVars, regVars, reqVars, rankVars>>

StatsNext ==
    \/ \E values \in ValueLists : CalculateGini(values)
    \/ \E values \in ValueLists : CreateDistributionBuckets(values)
    \/ CalcReturn

\* The statistics helpers of the routes over every list of up to MaxValues
\* staking amounts.
StatsSpec == RegInit /\ [][StatsNext]_vars

(* ---------------------------- yield reports ---------------------------- *)

\* `validator_yield_${validatorAddress}`
ValidatorYieldKey(addr) == "validator_yield_" \o addr

\* The report object calculateValidatorYield builds, and the object
\* getZeroYieldMetrics returns.
YieldReport == 4

ZeroYieldMetrics == 5

\* The ttl calculateValidatorYield caches its report with: one hour.
YieldTTL == 3600000

\* APYCalculatorService.calculateValidatorYield up to its await, for a
\* validator whose stakingAmount is positive or not: the cache lookup, the
\* zero metrics for a stake of 0, else the call of
\* estimateValidatorDailyRewards, which reads contract.totalStaking().
CalculateValidatorYield(r, addr, staked) ==
    /\ proc = "running"
    /\ pc[r] = "idle"
    /\ LET key == ValidatorYieldKey(addr)
           cached == CacheGetValue(MapOf(1), namespace[1], key, now)
       IN /\ maps' = [maps EXCEPT ![NewMap(1)] = CacheGetMap(MapOf(1), namespace[1], key, now)]
          /\ last' = Call("get", 1, key, 0, cached)
          /\ IF cached # Null
             THEN /\ reqRet' = Return(r, cached)
                  /\ UNCHANGED <<pc, reqKey>>
             ELSE IF ~staked
             THEN /\ reqRet' = Return(r, ZeroYieldMetrics)
                  /\ UNCHANGED <<pc, reqKey>>
             ELSE /\ pc' = [pc EXCEPT ![r] = "estimating"]
                  /\ reqKey' = [reqKey EXCEPT ![r] = addr]
                  /\ UNCHANGED reqRet
    /\ UNCHANGED <<now, constructed, namespace, cleanupInterval, regVars, calcVars, rankVars>>

\* contract.totalStaking() of request r resolves, or rejects and
\* estimateValidatorDailyRewards returns zero rewards from its catch block:
\* either way the report is built, cached for an hour and returned.
EstimateReturns(r) ==
    /\ proc = "running"
    /\ pc[r] = "estimating"
    /\ maps' = [maps EXCEPT ![NewMap(1)] =
                  CacheSet(MapOf(1), namespace[1], ValidatorYieldKey(reqKey[r]),
                           YieldReport, YieldTTL, now)]
    /\ last' = Call("set", 1, ValidatorYieldKey(reqKey[r]), YieldReport, 1)
    /\ pc' = [pc EXCEPT ![r] = "idle"]
    /\ reqKey' = [reqKey EXCEPT ![r] = ""]
    /\ reqRet' = Return(r, YieldReport)
    /\ UNCHANGED <<now, constructed, namespace, cleanupInterval, regVars, calcVars, rankVars>>

YieldNext ==
    \/ \E r \in Reqs, addr \in Addrs, staked \in BOOLEAN : CalculateValidatorYield(r, addr, staked)
    \/ \E r \in Reqs : EstimateReturns(r)
    \/ Tick
    \/ EndTurn

\* One APYCalculatorService serving overlapping yield requests.
YieldSpec == Constructed(<<"apy">>) /\ [][YieldNext]_vars

(* ------------------------------ claims --------------------------------- *)

\* The index of key's entry in the Map of instance i, 0 if it has none.
EntryIndex(i, key) == MapIndex(MapOf(i), getKey(namespace[i], key))

\* What get(key) on instance i returns at the current clock value.
GetView(i, key) == CacheGetValue(MapOf(i), namespace[i], key, now)

KeysView(i) == CacheKeys(MapOf(i), namespace[i])

\* C1: get(k) returns the stored value of k exactly when an entry for k is
\* in the store and now - createdAt <= ttl; otherwise it returns null, and
\* an entry that existed but had expired is removed by that get.
C1_GetContract ==
    [][\A key \in ValueKeys :
        Get(1, key) =>
            LET m == MapOf(1)
                j == EntryIndex(1, key)
                live == j # 0 /\ now - m[j].timestamp <= m[j].ttl
            IN /\ live => last'.val = m[j].value /\ last'.val # Null
               /\ ~live => last'.val = Null
               /\ (j # 0 /\ ~live) => key \notin KeysView(1)']_vars

\* A get that hit an entry exactly ttl = 1 after it was set.
C1_Witness ==
    /\ last.op = "get"
    /\ last.val = 2
    /\ now = 1
    /\ EntryIndex(1, last.key) # 0
    /\ MapOf(1)[EntryIndex(1, last.key)].timestamp = 0
    /\ MapOf(1)[EntryIndex(1, last.key)].ttl = 1

\* C2: a set called while the store holds at least maxSize entries removes
\* exactly one entry, one with the oldest lastAccessed, and then inserts.
C2_EvictsOneOldest ==
    [][\A key \in Keys, value \in {1}, ttl \in TTLs :
        (Set(1, key, value, ttl) /\ Len(MapOf(1)) >= maxSize) =>
            LET m == MapOf(1)
            IN \E j \in 1..Len(m) :
                  /\ \A x \in 1..Len(m) : m[j].lastAccessed <= m[x].lastAccessed
                  /\ MapOf(1)' = MapSet(MapDelete(m, m[j].key),
                                        NewEntry(namespace[1], key, value, ttl, now))]_vars

\* C3: after every set the store holds at most maxSize entries.
C3_SizeBound ==
    last.op = "set" => Len(MapOf(last.store)) <= maxSize

\* C4: no call on one instance changes what get(k) or keys() return on an
\* instance with a different namespace.
C4_Isolation ==
    [][\A i \in constructed, j \in constructed :
        (namespace[i] # namespace[j] /\ CacheCall({i}, {"a", "b"}, {1}, {0})) =>
            /\ KeysView(j)' = KeysView(j)
            /\ \A key \in {"a", "b"} : GetView(j, key)' = GetView(j, key)]_vars

\* Instance 1 has just set key a while instance 2 holds a live entry under
\* the same logical key.
C4_Witness ==
    /\ last.op = "set" /\ last.store = 1 /\ last.key = "a"
    /\ GetView(1, "a") # Null
    /\ GetView(2, "a") # Null

\* C5 as stated: a get(k) that follows set(k, v, ttl) in the same turn
\* returns v, for every ttl >= 0.
C5_SetThenGet ==
    [][\A key \in ValueKeys :
        (last.op = "set" /\ last.store = 1 /\ last.key = key /\ Get(1, key)) =>
            last'.val = last.arg]_vars

\* C5 amended: a get(k) that follows set(k, v, ttl) in the same turn returns
\* v when the clock advanced by at most ttl between the two calls.
C5_SetThenGetWithinTtl ==
    [][\A key \in ValueKeys :
        (last.op = "set" /\ last.store = 1 /\ last.key = key /\ Get(1, key)) =>
            LET m == MapOf(1)
                j == EntryIndex(1, key)
            IN (j # 0 => now - m[j].timestamp <= m[j].ttl) => last'.val = last.arg]_vars

\* A get returned the value of an entry set at the same clock value with
\* ttl 0, in a store holding maxSize entries.
C5_Witness ==
    /\ last.op = "get"
    /\ last.val = 2
    /\ Len(MapOf(1)) = maxSize
    /\ EntryIndex(1, last.key) # 0
    /\ MapOf(1)[EntryIndex(1, last.key)].timestamp = now
    /\ MapOf(1)[EntryIndex(1, last.key)].ttl = 0
    /\ now = 1

\* Instance 1 holds an entry for key created at ts with this ttl.
Holds(key, ts, ttl) ==
    \E j \in 1..Len(MapOf(1)) :
        /\ MapOf(1)[j].key = getKey(namespace[1], key)
        /\ MapOf(1)[j].timestamp = ts
        /\ MapOf(1)[j].ttl = ttl

\* C6: a sweep removes exactly the entries with now - createdAt > ttl, and
\* while the timer is active every entry whose ttl elapses within the
\* modelled time is eventually removed from the store.
C6_Sweep ==
    /\ [][Cleanup(1) =>
            MapOf(1)' = SelectSeq(MapOf(1), LAMBDA e : ~(now - e.timestamp > e.ttl))]_vars
    /\ \A key \in SweepKeys, ts \in 0..MaxTime, ttl \in TTLs :
          (ts + ttl < MaxTime) =>
              (Holds(key, ts, ttl) ~> (~Holds(key, ts, ttl) \/ ~cleanupInterval[1]))

\* A sweep removed an expired entry and kept an entry that was not expired.
C6_Witness ==
    /\ last.op = "cleanup"
    /\ last.val >= 1
    /\ Len(MapOf(1)) >= 1

\* C7: destroy leaves the store empty and the timer cancelled; a cancelled
\* timer stays cancelled and runs no sweep; destroy on a destroyed, empty
\* store changes nothing.
C7_Destroy ==
    [][\A i \in constructed :
        /\ Destroy(i) => (MapOf(i)' = <<>> /\ ~cleanupInterval'[i])
        /\ ~cleanupInterval[i] => (~cleanupInterval'[i] /\ ~Cleanup(i))
        /\ (Destroy(i) /\ ~cleanupInterval[i] /\ MapOf(i) = <<>>) =>
              UNCHANGED <<maps, cleanupInterval, now>>]_vars

\* A destroyed store: empty, timer cancelled, destroy was the latest call.
C7_Witness ==
    /\ last.op = "destroy"
    /\ MapOf(1) = <<>>
    /\ ~cleanupInterval[1]
    /\ now = 1

\* C8: at every moment there is at most one Cache Store per namespace:
\* getCache and every service constructor use the same store for a namespace.
C8_OneStorePerNamespace ==
    \A i \in constructed, j \in constructed : namespace[i] = namespace[j] => i = j

\* C9: when the process has exited on SIGINT or SIGTERM, every Cache Store
\* constructed during the run is empty and has its cleanup timer cancelled.
C9_TornDownAtExit ==
    proc = "exited" =>
        \A i \in constructed : MapOf(i) = <<>> /\ ~cleanupInterval[i]

\* C10: a getValidatorInfo call that misses the cache issues its own
\* contract read, also while another request's read for the same address is
\* in flight; so two reads in flight for one key are reachable.
C10_NoSingleFlight ==
    [][\A r \in Reqs, addr \in Addrs :
        (GetValidatorInfo(r, addr) /\ GetView(1, ValidatorInfoKey(addr)) = Null) =>
            /\ pc'[r] = "fetching"
            /\ reqKey'[r] = addr
            /\ \A q \in Reqs \ {r} : pc'[q] = pc[q] /\ reqKey'[q] = reqKey[q]]_vars

\* Two requests await a contract read for the same address.
C10_Witness ==
    /\ pc[1] = "fetching"
    /\ pc[2] = "fetching"
    /\ reqKey[1] = reqKey[2]

\* C11: while an unexpired entry for the key is in the service's store, a
\* read-through call for that key returns the cached value and issues no
\* contract read.
C11_HitReadsNoUpstream ==
    [][\A r \in Reqs, addr \in Addrs :
        LET m == MapOf(1)
            j == EntryIndex(1, ValidatorInfoKey(addr))
        IN (GetValidatorInfo(r, addr) /\ j # 0 /\ now - m[j].timestamp <= m[j].ttl) =>
              /\ reqRet' = Return(r, m[j].value)
              /\ pc' = pc
              /\ reqKey' = reqKey]_vars

\* Request 2 was answered from the entry request 1 cached a millisecond
\* earlier, and no contract read is in flight.
C11_Witness ==
    /\ reqRet.req = 2
    /\ last.op = "get" /\ last.val = 2 /\ reqRet.val = 2
    /\ now = 1
    /\ EntryIndex(1, last.key) # 0
    /\ MapOf(1)[EntryIndex(1, last.key)].timestamp = 0
    /\ \A q \in Reqs : pc[q] = "idle"

\* The evaluated call is one of calculateAPRFast and calculateAPRSlow.
IsAPRCall == calc.fn \in {"calculateAPRFast", "calculateAPRSlow"}

\* C12: calculateAPRFast and calculateAPRSlow use the default commission of
\* 500 basis points, without raising an error, when the supplied rate is
\* above 10,000, and use the supplied rate unchanged for every supplied rate
\* from 0 to 10,000.
C12_CommissionSanitized ==
    (IsAPRCall /\ calc.in.validatorStaking # <<>>) =>
        /\ calc.out.threw = ""
        /\ calc.in.commissionRate > 10000 => calc.out.commission = 500
        /\ calc.in.commissionRate \in 0..10000 =>
              calc.out.commission = calc.in.commissionRate

\* C13: with an observed reward of exactly 0 the result is tagged
\* 'estimated' and its APR is above zero for every positive validator stake,
\* positive delegator stake and commission below 100%; with a nonzero
\* observed reward the result is tagged 'historical'.
C13_ZeroRewardEstimate ==
    (IsAPRCall /\ calc.out.threw = "") =>
        IF calc.in.validatorRewards = <<>>
        THEN /\ calc.out.calculationMethod = "estimated"
             /\ (/\ calc.in.validatorStaking # <<>>
                 /\ calc.in.delegatorStake # <<>>
                 /\ calc.in.commissionRate < 10000) => calc.out.apr > 0
        ELSE calc.out.calculationMethod = "historical"

\* C14: with validatorStaking = 0, calculateAPRFast and calculateAPRSlow
\* return a zero APR and raise nothing, and calculateDelegatorAPR, when the
\* minimum-stake check lets the call through, returns a success result with
\* a zero APR.
C14_NoZeroDenominatorError ==
    /\ (IsAPRCall /\ calc.in.validatorStaking = <<>>) =>
          (calc.out.threw = "" /\ calc.out.apr = 0)
    /\ (/\ calc.fn = "calculateDelegatorAPR"
        /\ calc.in.stakingAmount = <<>>
        /\ (calc.in.skipMinimumStakeCheck
            \/ BigCmp(calc.in.delegatorStake, MIN_DELEGATOR_STAKE) >= 0)) =>
          (calc.out.success /\ calc.out.data.apr = 0)

\* C15: for totalStaked > 0 and dailyReward > 0, calculateAPY with daily
\* compounding is at least calculateAPR of the same arguments and differs
\* from it; for dailyReward = 0 both are 0.
C15_ApyDominatesApr ==
    (calc.fn = "calculateAPY" /\ DblCmp(calc.in.totalStaked, Dbl(0, 0)) > 0) =>
        LET apr == calculateAPR(calc.in.dailyRewards, calc.in.totalStaked)
        IN IF DblCmp(calc.in.dailyRewards, Dbl(0, 0)) > 0
           THEN DblCmp(calc.out, apr) > 0
           ELSE DblCmp(calc.out, Dbl(0, 0)) = 0 /\ DblCmp(apr, Dbl(0, 0)) = 0

\* The evaluated call is calculatePerformanceScore.
IsScoreCall == calc.fn = "calculatePerformanceScore"

C17_BoundaryScoresDiffer ==
    (IsScoreCall /\ calc.in.apy = 1500) =>
        calc.out # calculatePerformanceScore(1501, calc.in.commissionRate,
                                             calc.in.stakingAmount, calc.in.validatorInfo)

\* C17 amended: the score for APY 15.01 is the score for 15.0 plus the 10
\* points between the two bands, capped at 100; the two differ exactly when
\* the score for 15.0 is below 100, and are both 100 otherwise.
C17_BoundaryScoresDifferBelowCap ==
    (IsScoreCall /\ calc.in.apy = 1500) =>
        LET above == calculatePerformanceScore(1501, calc.in.commissionRate,
                                               calc.in.stakingAmount, calc.in.validatorInfo)
        IN /\ above = (IF calc.out + 10 > 100 THEN 100 ELSE calc.out + 10)
           /\ calc.out < 100 <=> above # calc.out

\* The score for APY 15.0 is 90, and 100 for 15.01 with the same inputs.
C17_Witness ==
    /\ IsScoreCall
    /\ calc.in.apy = 1500
    /\ calc.out = 90
    /\ calculatePerformanceScore(1501, calc.in.commissionRate, calc.in.stakingAmount,
                                 calc.in.validatorInfo) = 100

\* C18 as stated: for stakingAmount = 100000 and a commission of 5% the
\* score includes the +20 stake-size bonus: it is 20 above the score the
\* same validator gets with no stake bonus, up to the cap.
C18_StakeBonus20 ==
    (IsScoreCall /\ calc.in.stakingAmount = 100000 /\ calc.in.commissionRate = 500) =>
        LET base == calculatePerformanceScore(calc.in.apy, calc.in.commissionRate, 1000,
                                              calc.in.validatorInfo)
        IN calc.out = (IF base + 20 > 100 THEN 100 ELSE base + 20)

\* C18 amended: for stakingAmount = 100000 and a commission of 5% the score
\* includes the +15 bonus of the band above 50,000.
C18_StakeBonus15 ==
    (IsScoreCall /\ calc.in.stakingAmount = 100000 /\ calc.in.commissionRate = 500) =>
        LET base == calculatePerformanceScore(calc.in.apy, calc.in.commissionRate, 1000,
                                              calc.in.validatorInfo)
        IN calc.out = (IF base + 15 > 100 THEN 100 ELSE base + 15)

\* The validator of the scenario with nothing else added: 50 + 20 + 15.
C18_Witness ==
    /\ IsScoreCall
    /\ calc.in.stakingAmount = 100000
    /\ calc.in.commissionRate = 500
    /\ calc.in.apy = 800
    /\ calc.out = 85

\* C19: assessValidatorRisk returns score = 30*[slash amount > 0]
\* + 20*[delegator count < 10] + 25*[total staked < 1,000]
\* + 15*[commission rate > 20%], level HIGH for score >= 50, MEDIUM for
\* 25 <= score < 50 and LOW otherwise, and one factor string per triggered
\* condition and no other.
C19_RiskAssessment ==
    calc.fn = "assessValidatorRisk" =>
        LET info == calc.in.validatorInfo
            count == IF info.stakers = NoStakers THEN 0 ELSE info.stakers
            slashed == info.slashAmount > 0
            few == count < 10
            low == calc.in.stakingAmount < 1000
            high == info.commissionRate > 2000
            score == 30 * Bool(slashed) + 20 * Bool(few) + 25 * Bool(low) + 15 * Bool(high)
            factors == {calc.out.factors[j] : j \in 1..Len(calc.out.factors)}
        IN /\ calc.out.score = score
           /\ calc.out.level = (CASE score >= 50 -> "HIGH"
                                  [] score >= 25 /\ score < 50 -> "MEDIUM"
                                  [] score < 25 -> "LOW")
           /\ Len(calc.out.factors) = Bool(slashed) + Bool(few) + Bool(low) + Bool(high)
           /\ Cardinality(factors) = Len(calc.out.factors)
           /\ slashed <=> "Has been slashed previously" \in factors
           /\ few <=> "Low number of delegators" \in factors
           /\ low <=> "Low total staking amount" \in factors
           /\ high <=> "High commission rate" \in factors

\* A slashed validator with nine delegators: score exactly 50, level HIGH,
\* two factors.
C19_Witness ==
    /\ calc.fn = "assessValidatorRisk"
    /\ calc.in.validatorInfo.stakers = 9
    /\ calc.out.score = 50
    /\ calc.out.level = "HIGH"
    /\ Len(calc.out.factors) = 2

IsRankCall == calc.fn = "calculateDelegatorRankings"

\* The delegators of pages p..pages of the ranking of chain, one after
\* another.
RECURSIVE RankPagesFrom(_, _, _, _)
RankPagesFrom(chain, limit, p, pages) ==
    IF p > pages THEN <<>>
    ELSE calculateDelegatorRankings(chain, p, limit).delegators
             \o RankPagesFrom(chain, limit, p + 1, pages)

\* The total stake the contract reads give address.
StakeOf(all, address) == all[AddressIndex(all, address)].totalStake

\* C20: calculateDelegatorRankings(page, limit) orders all delegators by
\* total stake in non-increasing order, ranks each by its 1-based position
\* and returns the slice [(page-1)*limit, page*limit) of that list: pages
\* 1..totalPages together hold every delegator exactly once with ranks 1..N
\* in order, totalPages is the least whole number of pages of limit entries
\* that hold N, and hasNext is true exactly when the next page is non-empty.
C20_RankingPages ==
    IsRankCall =>
        LET chain == calc.in.chain
            page == calc.in.page
            limit == calc.in.limit
            all == getAllDelegators(chain)
            N == Len(all)
            totalPages == calc.out.pagination.totalPages
            whole == RankPagesFrom(chain, limit, 1, totalPages)
        IN /\ totalPages \in 0..N
           /\ totalPages * limit >= N
           /\ totalPages > 0 => (totalPages - 1) * limit < N
           /\ Len(whole) = N
           /\ \A j \in 1..N :
                 /\ whole[j].rank = j
                 /\ AddressIndex(all, whole[j].address) # 0
                 /\ whole[j].totalStake = formatEther(StakeOf(all, whole[j].address))
           /\ \A j \in 1..N : \A k \in 1..N :
                 j # k => whole[j].address # whole[k].address
           /\ \A j \in 1..N : \A k \in j..N :
                 BigCmp(StakeOf(all, whole[j].address),
                        StakeOf(all, whole[k].address)) >= 0
           /\ calc.out.delegators =
                 SubSeq(whole, (page - 1) * limit + 1, Min(page * limit, N))
           /\ calc.out.pagination.hasNext <=>
                 calculateDelegatorRankings(chain, page + 1, limit).delegators # <<>>

\* Three delegators, the last read holding the largest stake: page 1 of two
\* entries starts with it at rank 1 and a further page follows.
C20_Witness ==
    /\ IsRankCall
    /\ calc.in.page = 1
    /\ calc.in.limit = 2
    /\ calc.out.pagination.totalItems = 3
    /\ calc.out.pagination.totalPages = 2
    /\ calc.out.pagination.hasNext
    /\ Len(calc.out.delegators) = 2
    /\ calc.out.delegators[1].address = "d3"
    /\ calc.out.delegators[1].rank = 1
    /\ calc.out.delegators[2].address = "d1"
    /\ calc.out.delegators[2].rank = 2

IsRankOfCall == calc.fn = "getDelegatorRank"

\* The stake of delegator d over the active validators of chain.
TotalOf(chain, d) == BigAdd(chain["v1"][d], chain["v2"][d])

\* The delegators of chain with a stake.
Delegating(chain) == {d \in {"d1", "d2", "d3"} : TotalOf(chain, d) # <<>>}

\* The number of delegators of chain with strictly more stake than d.
Above(chain, d) ==
    Cardinality({o \in Delegating(chain) :
                    BigCmp(TotalOf(chain, o), TotalOf(chain, d)) > 0})

\* The rank part of C21: the not-found result exactly for a zero or absent
\* stake, else rank 1 + the number of delegators with strictly more stake,
\* shared by the delegators of equal stake.
RankOfRank ==
    LET chain == calc.in.chain
        d == calc.in.delegatorAddress
    IN IF TotalOf(chain, d) = <<>>
       THEN /\ "message" \in DOMAIN calc.out
            /\ calc.out.rank = "null"
       ELSE /\ "message" \notin DOMAIN calc.out
            /\ calc.out.rank = 1 + Above(chain, d)
            /\ calc.out.rank # 0
            /\ calc.out.totalDelegators = Cardinality(Delegating(chain))
            /\ \A o \in Delegating(chain) :
                  TotalOf(chain, o) = TotalOf(chain, d) =>
                      getDelegatorRank(chain, o).rank = calc.out.rank

\* C21 as stated: getDelegatorRank(d) returns rank 1 + the number of
\* delegators with strictly greater total stake, equal stakes sharing a
\* rank, percentile = (totalDelegators - rank + 1) / totalDelegators * 100,
\* and the not-found result with rank null exactly when d's total stake is
\* zero or absent.
C21_RankAndPercentile ==
    IsRankOfCall =>
        /\ RankOfRank
        /\ "percentile" \in DOMAIN calc.out =>
              calc.out.percentile.digits * calc.out.totalDelegators =
                  (calc.out.totalDelegators - calc.out.rank + 1) * 100 * 100

\* C21 amended: as C21, with percentile being that quotient rounded to two
\* decimals: the reported hundredths are within half a hundredth of it.
C21_RankAndRoundedPercentile ==
    IsRankOfCall =>
        /\ RankOfRank
        /\ "percentile" \in DOMAIN calc.out =>
              LET n == calc.out.totalDelegators
                  exact == (n - calc.out.rank + 1) * 100 * 100
                  reported == calc.out.percentile.digits * n
              IN /\ calc.out.percentile.decimals = 2
                 /\ 2 * (reported - exact) <= n
                 /\ 2 * (exact - reported) < n

\* Two delegators tied below a third: both have rank 2 of 3 and the
\* percentile 66.67.
C21_Witness ==
    /\ IsRankOfCall
    /\ calc.in.delegatorAddress = "d2"
    /\ TotalOf(calc.in.chain, "d1") = TotalOf(calc.in.chain, "d2")
    /\ "message" \notin DOMAIN calc.out
    /\ calc.out.rank = 2
    /\ calc.out.totalDelegators = 3
    /\ calc.out.percentile.digits = 6667
    /\ getDelegatorRank(calc.in.chain, "d1").rank = 2

IsGiniCall == calc.fn = "calculateGini"

\* C22: calculateGini(values), the sum over the ascending-sorted values
\* x_1..x_n of (2i - n - 1) * x_i divided by n times the sum of the values,
\* is 0 for an empty list or a zero sum, 0 for a uniform list and (n-1)/n
\* when one element holds the whole sum and the others are 0, and it leaves
\* the caller's list in its order.
C22_GiniFormula ==
    IsGiniCall =>
        LET values == calc.in.values
            n == Len(values)
            holders == {j \in 1..n : values[j].m # <<>>}
        IN /\ holders = {} => calc.out.gini = Zero
           /\ (\A j \in 1..n : values[j] = values[1]) => calc.out.gini = Zero
           /\ (Cardinality(holders) = 1 /\ n > 1) =>
                 calc.out.gini = Number(FALSE, NearestDouble(BigOf(n - 1), BigOf(n)))
           /\ calc.out.values = values

IsBucketsCall == calc.fn = "createDistributionBuckets"

RECURSIVE CountSum(_, _)
CountSum(buckets, j) ==
    IF j > Len(buckets) THEN 0 ELSE buckets[j].count + CountSum(buckets, j + 1)

\* C23: for every non-empty list of values createDistributionBuckets
\* returns without error, having put each value into exactly one of
\* min(10, len(values)) equal-width buckets, the maximum into the last one:
\* the counts of the returned buckets sum to len(values) and none is 0.
C23_BucketsCoverValues ==
    (IsBucketsCall /\ Len(calc.in.values) > 0) =>
        /\ calc.out.threw = ""
        /\ LET buckets == calc.out.result.buckets
           IN /\ Len(buckets) <= Min(10, Len(calc.in.values))
              /\ CountSum(buckets, 1) = Len(calc.in.values)
              /\ \A j \in 1..Len(buckets) : buckets[j].count > 0
              /\ buckets[Len(buckets)].max = calc.out.result.stats.max

\* The entries of a Map: the keys with their values.
EntriesOf(m) == {[key |-> m[j].key, value |-> m[j].value] : j \in 1..Len(m)}

\* C24: computing a yield report never adds or overwrites a cache entry:
\* every step of calculateValidatorYield leaves the set of entries of every
\* Cache Store as it was.
C24_YieldLeavesCache ==
    [][\A r \in Reqs :
          ((\E addr \in Addrs, staked \in BOOLEAN : CalculateValidatorYield(r, addr, staked))
               \/ EstimateReturns(r)) =>
              \A i \in StoreIds : EntriesOf(maps'[i]) = EntriesOf(maps[i])]_vars

\* C25: set(k, v) on a key k that is already stored removes no other entry
\* and leaves the entry count unchanged, also when the store holds maxSize
\* entries.
C25_SetExistingEvictsNothing ==
    [][\A key \in Keys, ttl \in TTLs :
          (Set(1, key, 1, ttl) /\ EntryIndex(1, key) # 0) =>
              {MapOf(1)[j].key : j \in 1..Len(MapOf(1))} =
                  {maps'[NewMap(1)][j].key : j \in 1..Len(maps'[NewMap(1)])}]_vars

\* The failing read of C26: the rejection returns the default value to the
\* caller and leaves every Map as it is.
FailedReadReturnsDefault ==
    \A r \in Reqs :
        RejectValidatorInfo(r) =>
            /\ maps' = maps
            /\ reqRet' = Return(r, DefaultInfo)
            /\ pc'[r] = "idle"

\* C26 as stated: when the upstream read fails inside a read-through
\* method, the method returns its default value without throwing and the
\* cache is unchanged by the call, its lookup included, so that the next
\* call for the key attempts the upstream read again.
C26_FailedReadLeavesCache ==
    [][/\ FailedReadReturnsDefault
       /\ \A r \in Reqs, addr \in Addrs :
             (GetValidatorInfo(r, addr) /\ GetView(1, ValidatorInfoKey(addr)) = Null) =>
                 /\ pc'[r] = "fetching"
                 /\ maps' = maps]_vars

\* C26 amended: as C26, except that the lookup of the call removes the
\* entry of its key when that entry has expired; every other entry is
\* unchanged.
C26_FailedReadWritesNothing ==
    [][/\ FailedReadReturnsDefault
       /\ \A r \in Reqs, addr \in Addrs :
             (GetValidatorInfo(r, addr) /\ GetView(1, ValidatorInfoKey(addr)) = Null) =>
                 /\ pc'[r] = "fetching"
                 /\ maps' = [maps EXCEPT ![NewMap(1)] =
                               MapDelete(@, getKey(namespace[1], ValidatorInfoKey(addr)))]]_vars

\* A call has returned the default value after its read failed while the
\* store keeps the entry of another address, and the failed address has no
\* entry: its next call reads upstream again.
C26_Witness ==
    /\ reqRet.req # 0
    /\ reqRet.val = DefaultInfo
    /\ last = NoCall
    /\ Len(MapOf(1)) = 1
    /\ \E addr \in Addrs : EntryIndex(1, ValidatorInfoKey(addr)) = 0

\* C27: getAllDelegators returns for each address the sum over the active
\* validators of its stake with the validator, each stake counted once; an
\* address with no stake is not in the result, so every total is positive.
C27_TotalsPerDelegator ==
    calc.fn = "getAllDelegators" =>
        /\ \A d \in {"d1", "d2", "d3"} :
              LET entries == {j \in 1..Len(calc.out) : calc.out[j].address = d}
              IN IF TotalOf(calc.in.chain, d) = <<>>
                 THEN entries = {}
                 ELSE /\ Cardinality(entries) = 1
                      /\ \A j \in entries :
                            calc.out[j].totalStake = TotalOf(calc.in.chain, d)
        /\ \A j \in 1..Len(calc.out) :
              /\ calc.out[j].address \in {"d1", "d2", "d3"}
              /\ calc.out[j].totalStake # <<>>

\* One delegator stakes with both validators, one with the second only and
\* one with none: two totals, 2000 and 1000 tokens.
C27_Witness ==
    /\ calc.fn = "getAllDelegators"
    /\ calc.in.chain["v1"]["d1"] # <<>>
    /\ calc.in.chain["v2"]["d1"] # <<>>
    /\ calc.in.chain["v1"]["d2"] = <<>>
    /\ calc.out = <<[address |-> "d1", totalStake |-> parseEther(2000)],
                    [address |-> "d2", totalStake |-> parseEther(1000)]>>

\* The stake of all delegators of chain together.
StakedIn(chain) ==
    BigAdd(TotalOf(chain, "d1"), BigAdd(TotalOf(chain, "d2"), TotalOf(chain, "d3")))

\* C28: in every result of calculateDelegatorRankings summary.totalStaked
\* is the sum of the total stakes of all ranked delegators and
\* summary.averageStake that sum divided, as whole wei, by the number of
\* delegators, whatever page and limit were requested.
C28_SummaryTotals ==
    IsRankCall =>
        LET chain == calc.in.chain
            count == Cardinality(Delegating(chain))
        IN /\ calc.out.summary.totalDelegators = count
           /\ calc.out.summary.totalStaked = formatEther(StakedIn(chain))
           /\ count > 0 =>
                 calc.out.summary.averageStake =
                     formatEther(BigDiv(StakedIn(chain), BigOf(count)))

\* C30: every score calculatePerformanceScore returns lies between 40 and 100
\* inclusive, so the ranking of a computed score is never "POOR".
C30_ScoreNeverPoor ==
    /\ IsScoreCall => calc.out >= 40 /\ calc.out <= 100
    /\ calc.fn = "getPerformanceRanking" =>
          /\ calc.out.score >= 40 /\ calc.out.score <= 100
          /\ calc.out.ranking # "POOR"

\* The lowest score: no APY, stake or status points and a commission of 20%.
C30_Witness ==
    /\ calc.fn = "getPerformanceRanking"
    /\ calc.in.commissionRate = 2000
    /\ calc.in.validatorInfo.status # 1
    /\ calc.in.validatorInfo.slashAmount # 0
    /\ calc.out = [score |-> 40, ranking |-> "BELOW_AVERAGE"]

\* The sum of the stakes a breakdown lists, in wei.
RECURSIVE BreakdownWei(_)
BreakdownWei(breakdown) ==
    IF breakdown = <<>> THEN <<>>
    ELSE BigAdd(WeiOf(breakdown[1].stake), BreakdownWei(Tail(breakdown)))

\* C29: in every result of getDelegatorRank with a non-null rank the stakes
\* of validatorBreakdown are nonzero, in non-increasing order, and sum to the
\* reported totalStake, whatever stake changes and rejected reads the call's
\* contract reads were interleaved with.
C29_BreakdownSumsToTotal ==
    (rankCall.pc = "returned" /\ "validatorBreakdown" \in DOMAIN rankCall.result) =>
        LET breakdown == rankCall.result.validatorBreakdown
        IN /\ \A j \in 1..Len(breakdown) : WeiOf(breakdown[j].stake) # <<>>
           /\ \A j \in 1..(Len(breakdown) - 1) :
                 BigCmp(WeiOf(breakdown[j].stake), WeiOf(breakdown[j + 1].stake)) >= 0
           /\ BreakdownWei(breakdown) = WeiOf(rankCall.result.totalStake)

====
